---- MODULE Spec2Model ----
(***************************************************************************)
(* Model of the budget simulation engine (src/services/simulationEngine.ts)*)
(* with its weekly aggregation, of the older engine without reality        *)
(* support (src/unnamed/part_002), and of the application that keeps the   *)
(* rules and the observed entries of every month (src/unnamed/part_000)    *)
(* with its transaction form (src/unnamed/part_001).                       *)
(*                                                                         *)
(* Numbers.  The engine computes with IEEE doubles on currency amounts.    *)
(* The model computes exactly, in a fixed-point unit of 1/70 cent: every   *)
(* amount of a whole number of tenths of a cent, and every seventh of      *)
(* such an amount (amount / 7), is a whole number of units.  The error of  *)
(* the double arithmetic (about 1e-12) is far below one unit, so away from *)
(* exact rounding ties a stored, rounded value is the same in both.        *)
(* At a tie on a value a double holds exactly (an odd number of eighths,   *)
(* 0.125 or -0.375) the product x * 100 is exact as well (12.5, -37.5),    *)
(* and Math.round takes it to the next integer towards +infinity, as       *)
(* Round2 does.                                                            *)
(*                                                                         *)
(* undefined.  An optional value is a sequence: << >> is undefined and     *)
(* <<v>> is the value v.                                                   *)
(***************************************************************************)
EXTENDS Integers, Sequences, FiniteSets, TLC

VARIABLES initialBalance, year, month, transactions, actualEntries, points,
          weeklyPoints, pc, legacyPoints, legacyPc

\* A second call of calculateDailySimulation for the same month and the
\* same observed entries: undefined, or its initialBalance, its transactions
\* and the points it returned.
VARIABLES second

\* The category breakdown of the single-list application (src/App.tsx):
\* undefined, or its split and its totalAllocation.
VARIABLES breakdown

\* The application (src/unnamed/part_000) and its form (part_001).
VARIABLES clock, selectedYear, selectedMonth, transactionsMap,
          initialBalancesMap, actualEntriesMap, todayActualInput, isFormOpen,
          editingTransaction, formData, rejected, previousMap, lastOp,
          opCount, history

engineVars == <<initialBalance, year, month, transactions, actualEntries,
                points, weeklyPoints, pc, legacyPoints, legacyPc, second,
                breakdown>>

appVars == <<clock, selectedYear, selectedMonth, transactionsMap,
             initialBalancesMap, actualEntriesMap, todayActualInput, isFormOpen,
             editingTransaction, formData, rejected, previousMap, lastOp,
             opCount, history>>

vars == <<engineVars, appVars>>

\* One cent in model units (1 unit = 1/70 cent = 1/7000 currency unit).
Cent == 70

Money(cents) == cents * Cent

(***************************************************************************)
(* Bounds and input sets                                                   *)
(***************************************************************************)
MaxRules == 2

Years == {2024, 2025}
Months == 0 .. 11
Balances == {Money(250000)}

Undefined == << >>
Some(v) == <<v>>

Tx(amount, type, dayOfMonth, dayOfWeek, frequency, weeklyBehavior) ==
    [amount |-> amount, type |-> type, dayOfMonth |-> dayOfMonth,
     dayOfWeek |-> dayOfWeek, frequency |-> frequency,
     weeklyBehavior |-> weeklyBehavior]

\* The rules the inputs are drawn from, in a fixed order: Once rules inside
\* the month, on a day short months lack and below day 1; Smooth rules with
\* a whole-cent and a fractional daily rate; LumpSum rules with a weekday,
\* and one with neither weeklyBehavior nor dayOfWeek.
RulePool ==
    << Tx(Money(10000), "EXPENSE", 15, Some(1), "ONCE", "SMOOTH"),
       Tx(Money(3000), "SAVING", 31, Some(1), "ONCE", "SMOOTH"),
       Tx(Money(12000), "INCOME", 0, Some(1), "ONCE", "LUMP_SUM"),
       Tx(Money(7000), "EXPENSE", 1, Some(1), "WEEKLY", "SMOOTH"),
       Tx(Money(1000), "INCOME", 9, Some(3), "WEEKLY", "SMOOTH"),
       Tx(Money(5000), "INCOME", 1, Some(1), "WEEKLY", "LUMP_SUM"),
       Tx(Money(2000), "SAVING", 15, Some(0), "WEEKLY", "LUMP_SUM"),
       Tx(Money(4000), "EXPENSE", 1, Undefined, "WEEKLY", "undefined") >>

\* The observed entries the inputs are drawn from: two on the same day with
\* different values, one of them not a whole number of cents (800.123).
EntryPool ==
    { [day |-> 20, value |-> Money(100000)],
      [day |-> 27, value |-> Money(50000)],
      [day |-> 27, value |-> Money(80012) + 21] }

\* The strictly increasing index lists over 1 .. n of length at most k.
IncreasingLists(n, k) ==
    { s \in UNION { [1 .. j -> 1 .. n] : j \in 0 .. k } :
        \A i \in 1 .. Len(s) - 1 : s[i] < s[i + 1] }

\* Rule lists: the sub-lists of the pool of at most MaxRules rules.
RuleLists ==
    { [i \in 1 .. Len(ix) |-> RulePool[ix[i]]] :
        ix \in IncreasingLists(Len(RulePool), MaxRules) }

\* Entry lists: every list of distinct pool entries, in every order.
EntryLists ==
    { s \in UNION { [1 .. k -> EntryPool] : k \in 0 .. Cardinality(EntryPool) } :
        \A i, j \in 1 .. Len(s) : i # j => s[i] # s[j] }

(***************************************************************************)
(* Date: the ECMAScript day arithmetic behind new Date(y, m, d), getDate() *)
(* and getDay().  A Date built from local fields and read through local    *)
(* fields is a day number (days since 1970-01-01).                         *)
(***************************************************************************)
DayFromYear(y) ==
    365 * (y - 1970) + ((y - 1969) \div 4) - ((y - 1901) \div 100)
        + ((y - 1601) \div 400)

InLeapYear(y) == DayFromYear(y + 1) - DayFromYear(y) = 366

\* Days of the year before month m (0 .. 11).
DaysBeforeMonth(y, m) ==
    LET base == <<0, 31, 59, 90, 120, 151, 181, 212, 243, 273, 304, 334>>
    IN  base[m + 1] + (IF m >= 2 /\ InLeapYear(y) THEN 1 ELSE 0)

\* new Date(y, m, d): years 0..99 mean 1900..1999; month and day overflow
\* into the neighbouring months.
NewDate(y, m, d) ==
    LET fy == IF 0 <= y /\ y <= 99 THEN 1900 + y ELSE y
        ym == fy + (m \div 12)
        mn == m % 12
    IN  DayFromYear(ym) + DaysBeforeMonth(ym, mn) + d - 1

\* Date.prototype.getDay(): 0 = Sunday .. 6 = Saturday.
GetDay(t) == (t + 4) % 7

YearFromDay(t) ==
    LET guess == 1970 + (t \div 365)
    IN  CHOOSE y \in (guess - 2) .. (guess + 2) :
            DayFromYear(y) <= t /\ t < DayFromYear(y + 1)

MonthFromDay(t) ==
    LET y == YearFromDay(t)
        diy == t - DayFromYear(y)
    IN  CHOOSE m \in 0 .. 11 :
            /\ DaysBeforeMonth(y, m) <= diy
            /\ (m = 11 \/ diy < DaysBeforeMonth(y, m + 1))

\* Date.prototype.getDate(): the day of the month.
GetDate(t) ==
    LET y == YearFromDay(t)
    IN  t - DayFromYear(y) - DaysBeforeMonth(y, MonthFromDay(t)) + 1

(***************************************************************************)
(* calculateDailySimulation                                                *)
(***************************************************************************)
\* Mutant: day 0 of the month itself, the length of the previous month.
daysInMonth_ofPreviousMonth(y, m) == GetDate(NewDate(y, m, 0))

\* const daysInMonth = new Date(year, month + 1, 0).getDate()
daysInMonth(y, m) == GetDate(NewDate(y, m + 1, 0))

\* Math.round(x * 100) / 100: to the nearest cent, ties towards +infinity.
Round2(x) == ((2 * x + Cent) \div (2 * Cent)) * Cent

\* actualEntries.reduce((prev, current) => (prev.day > current.day) ? prev : current)
RECURSIVE ReduceLatest(_, _, _)
ReduceLatest(prev, entries, i) ==
    IF i > Len(entries) THEN prev
    ELSE ReduceLatest(IF prev.day > entries[i].day THEN prev ELSE entries[i],
                      entries, i + 1)

\* Mutant: the comparison reversed, the entry of the smallest day.
latestActual_earliest(entries) ==
    IF Len(entries) > 0
    THEN Some(entries[CHOOSE i \in 1 .. Len(entries) :
                \A j \in 1 .. Len(entries) :
                    \/ entries[i].day < entries[j].day
                    \/ (entries[i].day = entries[j].day /\ i >= j)])
    ELSE Undefined

latestActual(entries) ==
    IF Len(entries) > 0 THEN Some(ReduceLatest(entries[1], entries, 2))
    ELSE Undefined

\* Mutant: findLast instead of find.
matchingActual_last(entries, day) ==
    LET hits == { i \in 1 .. Len(entries) : entries[i].day = day }
    IN  IF hits = {} THEN Undefined
        ELSE Some(entries[CHOOSE i \in hits : \A j \in hits : i >= j])

\* actualEntries.find(e => e.day === day): the first entry of that day.
matchingActual(entries, day) ==
    LET hits == { i \in 1 .. Len(entries) : entries[i].day = day }
    IN  IF hits = {} THEN Undefined
        ELSE Some(entries[CHOOSE i \in hits : \A j \in hits : i <= j])

\* Mutant: the weekly amount, not divided by 7.
smoothRates_notDivided(txs) ==
    [idx \in 1 .. Len(txs) |->
        IF txs[idx].frequency = "WEEKLY" /\ txs[idx].weeklyBehavior = "SMOOTH"
        THEN txs[idx].amount
        ELSE 0]

smoothRates(txs) ==
    [idx \in 1 .. Len(txs) |->
        IF txs[idx].frequency = "WEEKLY" /\ txs[idx].weeklyBehavior = "SMOOTH"
        THEN txs[idx].amount \div 7
        ELSE 0]

\* Mutant: t.dayOfWeek || 1, which takes Sunday (0) for a missing weekday.
targetDow_orOne(t) ==
    IF t.dayOfWeek = Undefined \/ t.dayOfWeek = Some(0) THEN 1 ELSE t.dayOfWeek[1]

\* t.dayOfWeek ?? 1
targetDow(t) == IF t.dayOfWeek = Undefined THEN 1 ELSE t.dayOfWeek[1]

\* Mutant: everything but an Expense counts as income.
isIncome_notExpense(t) == t.type # "EXPENSE"

isIncome(t) == t.type = "INCOME"

\* Mutant: only an Expense lowers the balance.
SignedVal_savingAdds(t, x) == IF t.type # "EXPENSE" THEN x ELSE -x

\* const val = isIncome ? x : -x
SignedVal(t, x) == IF isIncome(t) THEN x ELSE -x

\* Mutant: dailyDelta = val, the last rule firing on a day sets the delta.
Accrue_overwrites(acc, t, x) ==
    [dailyDelta |-> SignedVal(t, x),
     cumulativeIncome |->
        IF isIncome(t) THEN acc.cumulativeIncome + x ELSE acc.cumulativeIncome,
     cumulativeExpenses |->
        IF isIncome(t) THEN acc.cumulativeExpenses
        ELSE acc.cumulativeExpenses + x]

\* dailyDelta += val; if (isIncome) cumulativeIncome += x; else cumulativeExpenses += x
Accrue(acc, t, x) ==
    [dailyDelta |-> acc.dailyDelta + SignedVal(t, x),
     cumulativeIncome |->
        IF isIncome(t) THEN acc.cumulativeIncome + x ELSE acc.cumulativeIncome,
     cumulativeExpenses |->
        IF isIncome(t) THEN acc.cumulativeExpenses
        ELSE acc.cumulativeExpenses + x]

\* Mutant: a Once rule fires on its day and on every later day.
PlannedRule_onceFromDay(acc, t, rate, day, currentDayOfWeek) ==
    IF t.frequency = "ONCE" THEN
        IF t.dayOfMonth <= day THEN Accrue(acc, t, t.amount) ELSE acc
    ELSE IF t.frequency = "WEEKLY" THEN
        IF t.weeklyBehavior = "SMOOTH" THEN Accrue(acc, t, rate)
        ELSE IF currentDayOfWeek = targetDow(t) THEN Accrue(acc, t, t.amount)
        ELSE acc
    ELSE acc

\* The body of transactions.forEach((t, idx) => ...) of the planned trajectory.
PlannedRule(acc, t, rate, day, currentDayOfWeek) ==
    IF t.frequency = "ONCE" THEN
        IF t.dayOfMonth = day THEN Accrue(acc, t, t.amount) ELSE acc
    ELSE IF t.frequency = "WEEKLY" THEN
        IF t.weeklyBehavior = "SMOOTH" THEN Accrue(acc, t, rate)
        ELSE IF currentDayOfWeek = targetDow(t) THEN Accrue(acc, t, t.amount)
        ELSE acc
    ELSE acc

RECURSIVE PlannedForEach(_, _, _, _, _, _)
PlannedForEach(acc, txs, rates, idx, day, currentDayOfWeek) ==
    IF idx > Len(txs) THEN acc
    ELSE PlannedForEach(
            PlannedRule(acc, txs[idx], rates[idx], day, currentDayOfWeek),
            txs, rates, idx + 1, day, currentDayOfWeek)

\* Mutant: the projection accrues the whole weekly amount of a Smooth rule.
ProjectedRule_wholeWeekly(sum, t, d, dDow) ==
    IF t.frequency = "ONCE" /\ t.dayOfMonth = d THEN sum + SignedVal(t, t.amount)
    ELSE IF t.frequency = "WEEKLY" THEN
        IF t.weeklyBehavior = "SMOOTH" THEN sum + SignedVal(t, t.amount)
        ELSE IF dDow = targetDow(t) THEN sum + SignedVal(t, t.amount)
        ELSE sum
    ELSE sum

\* The body of transactions.forEach((t, idx) => ...) of the reality projection.
ProjectedRule(sum, t, d, dDow) ==
    IF t.frequency = "ONCE" /\ t.dayOfMonth = d THEN sum + SignedVal(t, t.amount)
    ELSE IF t.frequency = "WEEKLY" THEN
        IF t.weeklyBehavior = "SMOOTH" THEN sum + SignedVal(t, t.amount \div 7)
        ELSE IF dDow = targetDow(t) THEN sum + SignedVal(t, t.amount)
        ELSE sum
    ELSE sum

\* Mutant: the projection's rule loop stops one rule early.
RECURSIVE ProjectedForEach_skipsLast(_, _, _, _, _)
ProjectedForEach_skipsLast(sum, txs, idx, d, dDow) ==
    IF idx >= Len(txs) THEN sum
    ELSE ProjectedForEach_skipsLast(ProjectedRule(sum, txs[idx], d, dDow),
                                    txs, idx + 1, d, dDow)

RECURSIVE ProjectedForEach(_, _, _, _, _)
ProjectedForEach(sum, txs, idx, d, dDow) ==
    IF idx > Len(txs) THEN sum
    ELSE ProjectedForEach(ProjectedRule(sum, txs[idx], d, dDow),
                          txs, idx + 1, d, dDow)

\* for (let d = latestActual.day + 1; d <= day; d++) { ... }
\* The loop state is [d, sum]: the loop variable and projectedDeltaSinceReal.
RECURSIVE ProjectionLoop(_, _, _, _, _)
ProjectionLoop(st, day, y, m, txs) ==
    IF st.d > day THEN st.sum
    ELSE ProjectionLoop(
            [d |-> st.d + 1,
             sum |-> ProjectedForEach(st.sum, txs, 1, st.d,
                                      GetDay(NewDate(y, m, st.d)))],
            day, y, m, txs)

projectedDeltaSinceReal(latest, day, y, m, txs) ==
    ProjectionLoop([d |-> latest.day + 1, sum |-> 0], day, y, m, txs)

\* The reality trajectory of one day: the unrounded actualValue, or undefined.
actualValue(day, y, m, txs, entries) ==
    LET matching == matchingActual(entries, day)
        latest == latestActual(entries)
    IN  IF matching # Undefined THEN Some(matching[1].value)
        ELSE IF latest # Undefined /\ day > latest[1].day THEN
            Some(latest[1].value
                 + projectedDeltaSinceReal(latest[1], day, y, m, txs))
        ELSE Undefined

\* points.push({...})
MakePoint(day, plannedBalance, actual, acc) ==
    [date |-> ToString(day),
     dayNumber |-> day,
     balance |-> Round2(plannedBalance),
     actualBalance |-> IF actual # Undefined THEN Some(Round2(actual[1]))
                       ELSE Undefined,
     dailyDelta |-> Round2(acc.dailyDelta),
     cumulativeIncome |-> Round2(acc.cumulativeIncome),
     cumulativeExpenses |-> Round2(acc.cumulativeExpenses)]

\* Mutant: plannedBalance accumulates the rounded dailyDelta.
DayStep_roundedSteps(st, y, m, txs, entries) ==
    LET day == st.day
        currentDayOfWeek == GetDay(NewDate(y, m, day))
        acc == PlannedForEach(
                  [dailyDelta |-> 0, cumulativeIncome |-> st.cumulativeIncome,
                   cumulativeExpenses |-> st.cumulativeExpenses],
                  txs, smoothRates(txs), 1, day, currentDayOfWeek)
        plannedBalance == st.plannedBalance + Round2(acc.dailyDelta)
        actual == actualValue(day, y, m, txs, entries)
    IN  [day |-> day + 1,
         points |-> Append(st.points, MakePoint(day, plannedBalance, actual, acc)),
         plannedBalance |-> plannedBalance,
         cumulativeIncome |-> acc.cumulativeIncome,
         cumulativeExpenses |-> acc.cumulativeExpenses]

\* The body of for (let day = 1; day <= daysInMonth; day++) { ... }.
\* The loop state is [day, points, plannedBalance, cumulativeIncome,
\* cumulativeExpenses].
DayStep(st, y, m, txs, entries) ==
    LET day == st.day
        currentDayOfWeek == GetDay(NewDate(y, m, day))
        acc == PlannedForEach(
                  [dailyDelta |-> 0, cumulativeIncome |-> st.cumulativeIncome,
                   cumulativeExpenses |-> st.cumulativeExpenses],
                  txs, smoothRates(txs), 1, day, currentDayOfWeek)
        plannedBalance == st.plannedBalance + acc.dailyDelta
        actual == actualValue(day, y, m, txs, entries)
    IN  [day |-> day + 1,
         points |-> Append(st.points, MakePoint(day, plannedBalance, actual, acc)),
         plannedBalance |-> plannedBalance,
         cumulativeIncome |-> acc.cumulativeIncome,
         cumulativeExpenses |-> acc.cumulativeExpenses]

RECURSIVE DayLoop(_, _, _, _, _, _)
DayLoop(st, dim, y, m, txs, entries) ==
    IF st.day > dim THEN st.points
    ELSE DayLoop(DayStep(st, y, m, txs, entries), dim, y, m, txs, entries)

\* Mutant: let cumulativeIncome = initialBalance.
calculateDailySimulation_incomeFromBalance(balance0, y, m, txs, entries) ==
    DayLoop([day |-> 1, points |-> << >>, plannedBalance |-> balance0,
             cumulativeIncome |-> balance0, cumulativeExpenses |-> 0],
            daysInMonth(y, m), y, m, txs, entries)

\* Mutant: let plannedBalance = 0, the initial balance ignored.
calculateDailySimulation_fromZero(balance0, y, m, txs, entries) ==
    DayLoop([day |-> 1, points |-> << >>, plannedBalance |-> 0,
             cumulativeIncome |-> 0, cumulativeExpenses |-> 0],
            daysInMonth(y, m), y, m, txs, entries)

calculateDailySimulation(balance0, y, m, txs, entries) ==
    DayLoop([day |-> 1, points |-> << >>, plannedBalance |-> balance0,
             cumulativeIncome |-> 0, cumulativeExpenses |-> 0],
            daysInMonth(y, m), y, m, txs, entries)

(***************************************************************************)
(* countWeekdayOccurrences                                                 *)
(***************************************************************************)
\* for (let d = 1; d <= daysInMonth; d++) { if (... === dayOfWeek) count++ }
\* The loop state is [d, count].
RECURSIVE CountLoop(_, _, _, _, _)
CountLoop(st, dim, y, m, dayOfWeek) ==
    IF st.d > dim THEN st.count
    ELSE CountLoop(
            [d |-> st.d + 1,
             count |-> IF GetDay(NewDate(y, m, st.d)) = dayOfWeek
                       THEN st.count + 1 ELSE st.count],
            dim, y, m, dayOfWeek)

countWeekdayOccurrences(y, m, dayOfWeek) ==
    CountLoop([d |-> 1, count |-> 0], daysInMonth(y, m), y, m, dayOfWeek)

(***************************************************************************)
(* The engine without reality support (src/unnamed/part_002), translated   *)
(* from its own source.  Its names carry the prefix Legacy.                *)
(***************************************************************************)
\* const smoothRates = transactions.map(t => ...)
LegacySmoothRates(txs) ==
    [idx \in 1 .. Len(txs) |->
        IF txs[idx].frequency = "WEEKLY" /\ txs[idx].weeklyBehavior = "SMOOTH"
        THEN txs[idx].amount \div 7
        ELSE 0]

\* Mutant: t.dayOfWeek ?? 0, Sunday for a missing weekday.
LegacyTargetDow_orZero(t) == IF t.dayOfWeek = Undefined THEN 0 ELSE t.dayOfWeek[1]

\* const targetDow = t.dayOfWeek ?? 1
LegacyTargetDow(t) == IF t.dayOfWeek = Undefined THEN 1 ELSE t.dayOfWeek[1]

\* const val = isIncome ? x : -x; dailyDelta += val;
\* if (isIncome) cumulativeIncome += x; else cumulativeExpenses += x;
LegacyAccrue(acc, t, x) ==
    LET income == t.type = "INCOME"
    IN  [dailyDelta |-> acc.dailyDelta + (IF income THEN x ELSE -x),
         cumulativeIncome |-> acc.cumulativeIncome + (IF income THEN x ELSE 0),
         cumulativeExpenses |->
            acc.cumulativeExpenses + (IF income THEN 0 ELSE x)]

\* The body of transactions.forEach((t, idx) => ...).
LegacyRule(acc, t, rate, day, currentDayOfWeek) ==
    IF t.frequency = "ONCE" THEN
        IF t.dayOfMonth = day THEN LegacyAccrue(acc, t, t.amount) ELSE acc
    ELSE IF t.frequency = "WEEKLY" THEN
        IF t.weeklyBehavior = "SMOOTH" THEN LegacyAccrue(acc, t, rate)
        ELSE IF currentDayOfWeek = LegacyTargetDow(t)
             THEN LegacyAccrue(acc, t, t.amount)
        ELSE acc
    ELSE acc

RECURSIVE LegacyForEach(_, _, _, _, _, _)
LegacyForEach(acc, txs, rates, idx, day, currentDayOfWeek) ==
    IF idx > Len(txs) THEN acc
    ELSE LegacyForEach(
            LegacyRule(acc, txs[idx], rates[idx], day, currentDayOfWeek),
            txs, rates, idx + 1, day, currentDayOfWeek)

\* points.push({...}): a point without the field actualBalance.
LegacyMakePoint(day, currentBalance, acc) ==
    [date |-> ToString(day),
     dayNumber |-> day,
     balance |-> Round2(currentBalance),
     dailyDelta |-> Round2(acc.dailyDelta),
     cumulativeIncome |-> Round2(acc.cumulativeIncome),
     cumulativeExpenses |-> Round2(acc.cumulativeExpenses)]

\* The body of for (let day = 1; day <= daysInMonth; day++) { ... }.
\* The loop state is [day, points, currentBalance, cumulativeIncome,
\* cumulativeExpenses].
LegacyDayStep(st, y, m, txs) ==
    LET day == st.day
        currentDayOfWeek == GetDay(NewDate(y, m, day))
        acc == LegacyForEach(
                  [dailyDelta |-> 0, cumulativeIncome |-> st.cumulativeIncome,
                   cumulativeExpenses |-> st.cumulativeExpenses],
                  txs, LegacySmoothRates(txs), 1, day, currentDayOfWeek)
        currentBalance == st.currentBalance + acc.dailyDelta
    IN  [day |-> day + 1,
         points |-> Append(st.points, LegacyMakePoint(day, currentBalance, acc)),
         currentBalance |-> currentBalance,
         cumulativeIncome |-> acc.cumulativeIncome,
         cumulativeExpenses |-> acc.cumulativeExpenses]

RECURSIVE LegacyDayLoop(_, _, _, _, _)
LegacyDayLoop(st, dim, y, m, txs) ==
    IF st.day > dim THEN st.points
    ELSE LegacyDayLoop(LegacyDayStep(st, y, m, txs), dim, y, m, txs)

LegacyCalculateDailySimulation(balance0, y, m, txs) ==
    LegacyDayLoop([day |-> 1, points |-> << >>, currentBalance |-> balance0,
                   cumulativeIncome |-> 0, cumulativeExpenses |-> 0],
                  GetDate(NewDate(y, m + 1, 0)), y, m, txs)

(***************************************************************************)
(* aggregateToWeekly                                                       *)
(***************************************************************************)
\* dailyPoints.slice(i, i + 7), i counted from 0.
Slice7(dailyPoints, i) ==
    SubSeq(dailyPoints, i + 1,
           IF i + 7 < Len(dailyPoints) THEN i + 7 ELSE Len(dailyPoints))

\* chunk.reduce((sum, p) => sum + (p.dailyDelta > 0 ? p.dailyDelta : 0), 0)
weekIncome(chunk) ==
    LET F[k \in 0 .. Len(chunk)] ==
            IF k = 0 THEN 0
            ELSE F[k - 1] + (IF chunk[k].dailyDelta > 0
                             THEN chunk[k].dailyDelta ELSE 0)
    IN  F[Len(chunk)]

\* Mutant: the negative deltas summed without Math.abs.
weekExpense_signed(chunk) ==
    LET F[k \in 0 .. Len(chunk)] ==
            IF k = 0 THEN 0
            ELSE F[k - 1] + (IF chunk[k].dailyDelta < 0
                             THEN chunk[k].dailyDelta ELSE 0)
    IN  F[Len(chunk)]

\* chunk.reduce((sum, p) => sum + (p.dailyDelta < 0 ? Math.abs(p.dailyDelta) : 0), 0)
weekExpense(chunk) ==
    LET F[k \in 0 .. Len(chunk)] ==
            IF k = 0 THEN 0
            ELSE F[k - 1] + (IF chunk[k].dailyDelta < 0
                             THEN -chunk[k].dailyDelta ELSE 0)
    IN  F[Len(chunk)]

\* Mutant: the snapshot is taken from the first point of the chunk.
MakeWeeklyPoint_firstPoint(chunk, currentWeekIndex) ==
    LET lastPoint == chunk[1]
    IN  [weekLabel |-> "Week " \o ToString(currentWeekIndex),
         balance |-> lastPoint.balance,
         actualBalance |-> lastPoint.actualBalance,
         income |-> Round2(weekIncome(chunk)),
         expenses |-> Round2(weekExpense(chunk))]

\* weeklyPoints.push({...})
MakeWeeklyPoint(chunk, currentWeekIndex) ==
    LET lastPoint == chunk[Len(chunk)]
    IN  [weekLabel |-> "Week " \o ToString(currentWeekIndex),
         balance |-> lastPoint.balance,
         actualBalance |-> lastPoint.actualBalance,
         income |-> Round2(weekIncome(chunk)),
         expenses |-> Round2(weekExpense(chunk))]

\* Mutant: only full weeks, i + 7 <= dailyPoints.length.
RECURSIVE WeekLoop_fullWeeksOnly(_, _)
WeekLoop_fullWeeksOnly(st, dailyPoints) ==
    IF ~(st.i + 7 <= Len(dailyPoints)) THEN st.weeklyPoints
    ELSE WeekLoop_fullWeeksOnly(
            [i |-> st.i + 7,
             currentWeekIndex |-> st.currentWeekIndex + 1,
             weeklyPoints |->
                Append(st.weeklyPoints,
                       MakeWeeklyPoint(Slice7(dailyPoints, st.i),
                                       st.currentWeekIndex))],
            dailyPoints)

\* for (let i = 0; i < dailyPoints.length; i += 7) { ... }
\* The loop state is [i, currentWeekIndex, weeklyPoints].
RECURSIVE WeekLoop(_, _)
WeekLoop(st, dailyPoints) ==
    IF ~(st.i < Len(dailyPoints)) THEN st.weeklyPoints
    ELSE WeekLoop(
            [i |-> st.i + 7,
             currentWeekIndex |-> st.currentWeekIndex + 1,
             weeklyPoints |->
                Append(st.weeklyPoints,
                       MakeWeeklyPoint(Slice7(dailyPoints, st.i),
                                       st.currentWeekIndex))],
            dailyPoints)

aggregateToWeekly(dailyPoints) ==
    WeekLoop([i |-> 0, currentWeekIndex |-> 1, weeklyPoints |-> << >>],
             dailyPoints)

(***************************************************************************)
(* The application (src/unnamed/part_000): the selected month, the rules   *)
(* and the observed entries of every month, the transaction form           *)
(* (src/unnamed/part_001).                                                 *)
(*                                                                         *)
(* A map (Record<string, T>) is a function whose domain is the set of the  *)
(* keys it has; the key `${year}_${month}` is the pair <<year, month>>.    *)
(* null is << >>, as undefined.                                            *)
(*                                                                         *)
(* Five variables record what the handlers did.  history: the accepted    *)
(* updates and clearings of the observed entries, in order.  lastOp,       *)
(* previousMap, opCount: the last call of propagateChanges (its action,    *)
(* its rule and the selected month), transactionsMap before that call, and *)
(* the number of these calls.  rejected: whether the last submission of    *)
(* the open form was turned down.  The form is opened and a rule deleted   *)
(* while opCount is below MaxOps.                                          *)
(***************************************************************************)
MaxHistory == 3

MaxOps == 3

\* const today = new Date(), as the renders see it one after the other.
ClockPath ==
    << [year |-> 2024, month |-> 0, date |-> 30],
       [year |-> 2024, month |-> 0, date |-> 31],
       [year |-> 2024, month |-> 1, date |-> 1] >>

today == ClockPath[clock]

currentYear == today.year

currentMonthIdx == today.month

monthKey == <<selectedYear, selectedMonth>>

\* Mutant: only the year is compared.
isCurrentMonth_yearOnly == selectedYear = currentYear

isCurrentMonth ==
    selectedYear = currentYear /\ selectedMonth = currentMonthIdx

availableYears == {currentYear, currentYear + 1}

\* The months the month selector offers (a subset of 0 .. 11).
MonthChoices == {1, 11}

\* map[key] || []
Lookup(map, key) == IF key \in DOMAIN map THEN map[key] ELSE << >>

\* { ...map, [key]: value } and map[key] = value
Put(map, key, value) ==
    [k \in (DOMAIN map) \cup {key} |-> IF k = key THEN value ELSE map[k]]

\* delete map[key]
Delete(map, key) == [k \in (DOMAIN map) \ {key} |-> map[k]]

NaN == << >>

\* The texts typed into the number fields.
Texts == {"", "abc", "0", "-5", "12.50", "40", "100", "250.5"}

\* parseFloat(text): NaN, or <<the number>>.
ParseFloat(text) ==
    CASE text = "" -> NaN
      [] text = "abc" -> NaN
      [] text = "0" -> Some(0)
      [] text = "-5" -> Some(-Money(500))
      [] text = "12.50" -> Some(Money(1250))
      [] text = "40" -> Some(Money(4000))
      [] text = "100" -> Some(Money(10000))
      [] text = "250.5" -> Some(Money(25050))

\* Mutant: the rule is never found.
findIndex_never(currentList, id) == -1

\* currentList.findIndex(item => item.id === id): from 0, -1 when absent.
findIndex(currentList, id) ==
    LET hits == { i \in 1 .. Len(currentList) : currentList[i].id = id }
    IN  IF hits = {} THEN -1
        ELSE (CHOOSE i \in hits : \A j \in hits : i <= j) - 1

\* Mutant: the comparison reversed, only the rule with the id is kept.
FilterOut_reversed(currentList, id) ==
    LET Keep(item) == item.id = id
    IN  SelectSeq(currentList, Keep)

\* currentList.filter(item => item.id !== id)
FilterOut(currentList, id) ==
    LET Keep(item) == item.id # id
    IN  SelectSeq(currentList, Keep)

\* Mutant: an edit of a rule the month does not hold is dropped.
PropagateKey_editExistingOnly(nextMap, key, action, tx) ==
    LET currentList == Lookup(nextMap, key)
    IN  IF action = "delete"
        THEN Put(nextMap, key, FilterOut(currentList, tx.id))
        ELSE LET index == findIndex(currentList, tx.id)
             IN  IF index > -1
                 THEN Put(nextMap, key,
                          [currentList EXCEPT ![index + 1] = tx])
                 ELSE IF action = "add"
                      THEN Put(nextMap, key, Append(currentList, tx))
                      ELSE nextMap

\* Mutant: currentList[0] = { ...tx }, the first rule is replaced.
PropagateKey_replacesFirst(nextMap, key, action, tx) ==
    LET currentList == Lookup(nextMap, key)
    IN  IF action = "delete"
        THEN Put(nextMap, key, FilterOut(currentList, tx.id))
        ELSE LET index == findIndex(currentList, tx.id)
             IN  IF index > -1
                 THEN Put(nextMap, key, [currentList EXCEPT ![1] = tx])
                 ELSE Put(nextMap, key, Append(currentList, tx))

\* The body of for (let m = startM; m <= 11; m++) { ... }.
PropagateKey(nextMap, key, action, tx) ==
    LET currentList == Lookup(nextMap, key)
    IN  IF action = "delete"
        THEN Put(nextMap, key, FilterOut(currentList, tx.id))
        ELSE LET index == findIndex(currentList, tx.id)
             IN  IF index > -1
                 THEN Put(nextMap, key,
                          [currentList EXCEPT ![index + 1] = tx])
                 ELSE Put(nextMap, key, Append(currentList, tx))

\* for (let y = selectedYear; y <= endYear; y++)
\*   for (let m = startM; m <= 11; m++) { ... }
\* The loop state is [y, m, nextMap]; m restarts from 0 in every year after
\* the selected one.
RECURSIVE PropagateLoop(_, _, _, _)
PropagateLoop(st, endYear, action, tx) ==
    IF st.y > endYear THEN st.nextMap
    ELSE IF st.m > 11
    THEN PropagateLoop([y |-> st.y + 1, m |-> 0, nextMap |-> st.nextMap],
                       endYear, action, tx)
    ELSE PropagateLoop(
            [y |-> st.y, m |-> st.m + 1,
             nextMap |-> PropagateKey(st.nextMap, <<st.y, st.m>>, action, tx)],
            endYear, action, tx)

\* setTransactionsMap(prev => { ... return nextMap; })
propagateChanges(prev, action, tx) ==
    PropagateLoop([y |-> selectedYear, m |-> selectedMonth, nextMap |-> prev],
                  currentYear + 1, action, tx)

\* useState<Omit<Transaction, 'id'>>({...}) of the form.
DefaultFormData ==
    [name |-> "", amount |-> 0, type |-> "EXPENSE", dayOfMonth |-> 1,
     dayOfWeek |-> Some(1), frequency |-> "ONCE", weeklyBehavior |-> "SMOOTH",
     category |-> "Other"]

\* { ...formData, id }
WithId(data, id) ==
    [id |-> id, name |-> data.name, amount |-> data.amount,
     type |-> data.type, dayOfMonth |-> data.dayOfMonth,
     dayOfWeek |-> data.dayOfWeek, frequency |-> data.frequency,
     weeklyBehavior |-> data.weeklyBehavior, category |-> data.category]

\* setFormData({ ...editingTransaction }), read as Omit<Transaction, 'id'>.
FormDataOf(t) ==
    [name |-> t.name, amount |-> t.amount, type |-> t.type,
     dayOfMonth |-> t.dayOfMonth, dayOfWeek |-> t.dayOfWeek,
     frequency |-> t.frequency, weeklyBehavior |-> t.weeklyBehavior,
     category |-> t.category]

\* Math.random().toString(36).substr(2, 9): an id no rule has yet, the
\* first free one of these (ids are interchangeable).
Ids == <<"r1", "r2">>

UsedIds(map) ==
    UNION { { map[k][i].id : i \in 1 .. Len(map[k]) } : k \in DOMAIN map }

FreshIds(map) ==
    LET free == { n \in 1 .. Len(Ids) : Ids[n] \notin UsedIds(map) }
    IN  IF free = {} THEN {}
        ELSE { Ids[CHOOSE n \in free : \A o \in free : n <= o] }

planLog == <<previousMap, lastOp, opCount>>

NameTexts == {"", "Rent"}

AmountTexts == {"abc", "-5", "12.50", "40"}

ActualTexts == {"", "100", "250.5", "-5"}

\* The application after construction with an empty localStorage.
AppStartAt(c) ==
    /\ clock = c
    /\ selectedYear = ClockPath[c].year
    /\ selectedMonth = ClockPath[c].month
    /\ transactionsMap = << >>
    /\ initialBalancesMap = << >>
    /\ actualEntriesMap = << >>
    /\ todayActualInput = ""
    /\ isFormOpen = FALSE
    /\ editingTransaction = Undefined
    /\ formData = DefaultFormData
    /\ rejected = FALSE
    /\ previousMap = << >>
    /\ lastOp = Undefined
    /\ opCount = 0
    /\ history = << >>

AppStart == AppStartAt(1)

\* The engine's variables while the application's handlers are looked at.
EngineIdle ==
    /\ initialBalance = 0
    /\ year = ClockPath[1].year
    /\ month = ClockPath[1].month
    /\ transactions = << >>
    /\ actualEntries = << >>
    /\ points = << >>
    /\ weeklyPoints = << >>
    /\ pc = "ready"
    /\ legacyPoints = << >>
    /\ legacyPc = "ready"
    /\ second = << >>
    /\ breakdown = << >>

\* A render after the date has changed.
Tick ==
    /\ clock < Len(ClockPath)
    /\ clock' = clock + 1
    /\ UNCHANGED <<selectedYear, selectedMonth, transactionsMap,
                   actualEntriesMap, todayActualInput, isFormOpen,
                   editingTransaction, formData, rejected, planLog,
                   history>>
    /\ UNCHANGED initialBalancesMap
    /\ UNCHANGED engineVars

\* onChange={e => setSelectedMonth(parseInt(e.target.value))}; the options
\* before the current month of the current year are disabled.
SelectMonth ==
    /\ ~isFormOpen
    /\ \E m \in MonthChoices :
          /\ ~(selectedYear = currentYear /\ m < currentMonthIdx)
          /\ selectedMonth' = m
    /\ UNCHANGED <<clock, selectedYear, transactionsMap, actualEntriesMap,
                   todayActualInput, isFormOpen, editingTransaction, formData,
                   rejected, planLog, history>>
    /\ UNCHANGED initialBalancesMap
    /\ UNCHANGED engineVars

\* onChange={e => setSelectedYear(parseInt(e.target.value))}
SelectYear ==
    /\ ~isFormOpen
    /\ \E y \in availableYears : selectedYear' = y
    /\ UNCHANGED <<clock, selectedMonth, transactionsMap, actualEntriesMap,
                   todayActualInput, isFormOpen, editingTransaction, formData,
                   rejected, planLog, history>>
    /\ UNCHANGED initialBalancesMap
    /\ UNCHANGED engineVars

\* onChange={e => setTodayActualInput(e.target.value)}; the field is shown
\* in the current month only.
TypeActual ==
    /\ ~isFormOpen
    /\ isCurrentMonth
    /\ \E text \in ActualTexts : todayActualInput' = text
    /\ UNCHANGED <<clock, selectedYear, selectedMonth, transactionsMap,
                   actualEntriesMap, isFormOpen, editingTransaction, formData,
                   rejected, planLog, history>>
    /\ UNCHANGED initialBalancesMap
    /\ UNCHANGED engineVars

\* existing.filter(e => e.day !== today.getDate())
OtherDays(existing, date) ==
    LET Keep(e) == e.day # date
    IN  SelectSeq(existing, Keep)

\* Mutant: the entry of today is appended, the existing one is kept.
UpdatedActuals_keepsExisting(existing, date, val) ==
    Append(existing, [day |-> date, value |-> val])

\* const updated = [...existing.filter(...), { day: today.getDate(), value: val }]
UpdatedActuals(existing, date, val) ==
    Append(OtherDays(existing, date), [day |-> date, value |-> val])

handleUpdateActual ==
    /\ ~isFormOpen
    /\ Len(history) < MaxHistory
    /\ LET val == ParseFloat(todayActualInput)
       IN  IF val = NaN \/ ~isCurrentMonth
           THEN UNCHANGED <<actualEntriesMap, history>>
           ELSE /\ actualEntriesMap'
                     = Put(actualEntriesMap, monthKey,
                           UpdatedActuals(Lookup(actualEntriesMap, monthKey),
                                          today.date, val[1]))
                /\ history' = Append(history,
                                     [op |-> "update", key |-> monthKey,
                                      day |-> today.date, value |-> val[1]])
    /\ UNCHANGED <<clock, selectedYear, selectedMonth, transactionsMap,
                   todayActualInput, isFormOpen, editingTransaction, formData,
                   rejected, planLog>>
    /\ UNCHANGED initialBalancesMap
    /\ UNCHANGED engineVars

\* The button is shown in the current month when it has entries; confirm()
\* answers ok or not.
handleClearActuals ==
    /\ ~isFormOpen
    /\ Len(history) < MaxHistory
    /\ isCurrentMonth
    /\ Len(Lookup(actualEntriesMap, monthKey)) > 0
    /\ \E ok \in BOOLEAN :
          IF ok
          THEN /\ actualEntriesMap' = Delete(actualEntriesMap, monthKey)
               /\ todayActualInput' = ""
               /\ history' = Append(history,
                                    [op |-> "clear", key |-> monthKey])
          ELSE UNCHANGED <<actualEntriesMap, todayActualInput, history>>
    /\ UNCHANGED <<clock, selectedYear, selectedMonth, transactionsMap,
                   isFormOpen, editingTransaction, formData, rejected,
                   planLog>>
    /\ UNCHANGED initialBalancesMap
    /\ UNCHANGED engineVars

InitApp == EngineIdle /\ AppStart

NextReality ==
    \/ Tick
    \/ SelectMonth
    \/ SelectYear
    \/ TypeActual
    \/ handleUpdateActual
    \/ handleClearActuals

SpecReality == InitApp /\ [][NextReality]_vars

\* onClick={() => { setEditingTransaction(null); setIsFormOpen(true); }}
OpenAdd ==
    /\ ~isFormOpen
    /\ opCount < MaxOps
    /\ isFormOpen' = TRUE
    /\ editingTransaction' = Undefined
    /\ formData' = DefaultFormData
    /\ rejected' = FALSE
    /\ UNCHANGED <<clock, selectedYear, selectedMonth, transactionsMap,
                   actualEntriesMap, todayActualInput, planLog, history>>
    /\ UNCHANGED initialBalancesMap
    /\ UNCHANGED engineVars

\* onClick={() => {setEditingTransaction(t); setIsFormOpen(true);}} on a
\* rule of the selected month; the form's effect copies it into formData.
OpenEdit ==
    /\ ~isFormOpen
    /\ opCount < MaxOps
    /\ \E i \in 1 .. Len(Lookup(transactionsMap, monthKey)) :
          LET t == Lookup(transactionsMap, monthKey)[i]
          IN  /\ editingTransaction' = Some(t)
              /\ formData' = FormDataOf(t)
    /\ isFormOpen' = TRUE
    /\ rejected' = FALSE
    /\ UNCHANGED <<clock, selectedYear, selectedMonth, transactionsMap,
                   actualEntriesMap, todayActualInput, planLog, history>>
    /\ UNCHANGED initialBalancesMap
    /\ UNCHANGED engineVars

\* onChange={e => setFormData({ ...formData, name: e.target.value })}
TypeName ==
    /\ isFormOpen
    /\ \E text \in NameTexts : formData' = [formData EXCEPT !.name = text]
    /\ rejected' = FALSE
    /\ UNCHANGED <<clock, selectedYear, selectedMonth, transactionsMap,
                   actualEntriesMap, todayActualInput, isFormOpen,
                   editingTransaction, planLog, history>>
    /\ UNCHANGED initialBalancesMap
    /\ UNCHANGED engineVars

\* parseFloat(e.target.value) || 0
AmountOf(text) ==
    LET val == ParseFloat(text)
    IN  IF val = NaN \/ val = Some(0) THEN 0 ELSE val[1]

\* onChange={e => setFormData({ ...formData, amount: parseFloat(e.target.value) || 0 })}
TypeAmount ==
    /\ isFormOpen
    /\ \E text \in AmountTexts :
          formData' = [formData EXCEPT !.amount = AmountOf(text)]
    /\ rejected' = FALSE
    /\ UNCHANGED <<clock, selectedYear, selectedMonth, transactionsMap,
                   actualEntriesMap, todayActualInput, isFormOpen,
                   editingTransaction, planLog, history>>
    /\ UNCHANGED initialBalancesMap
    /\ UNCHANGED engineVars

\* Mutant: only the name is checked.
Invalid_nameOnly(data) == data.name = ""

\* if (!formData.name || formData.amount <= 0) return;
Invalid(data) == data.name = "" \/ data.amount <= 0

\* handleSubmit of the form, with the onSubmit the application passes in:
\* propagateChanges(editingTransaction ? 'edit' : 'add', t);
\* setIsFormOpen(false); setEditingTransaction(null).
handleSubmit ==
    /\ isFormOpen
    /\ IF Invalid(formData)
       THEN /\ rejected' = TRUE
            /\ UNCHANGED <<transactionsMap, isFormOpen, editingTransaction,
                           formData, planLog>>
       ELSE \E id \in (IF editingTransaction # Undefined
                       THEN {editingTransaction[1].id}
                       ELSE FreshIds(transactionsMap)) :
              LET t == WithId(formData, id)
                  action == IF editingTransaction # Undefined
                            THEN "edit" ELSE "add"
              IN  /\ transactionsMap'
                        = propagateChanges(transactionsMap, action, t)
                  /\ previousMap' = transactionsMap
                  /\ lastOp' = Some([action |-> action, tx |-> t,
                                     key |-> monthKey])
                  /\ opCount' = opCount + 1
                  /\ isFormOpen' = FALSE
                  /\ editingTransaction' = Undefined
                  /\ formData' = DefaultFormData
                  /\ rejected' = FALSE
    /\ UNCHANGED <<clock, selectedYear, selectedMonth, actualEntriesMap,
                   todayActualInput, history>>
    /\ UNCHANGED initialBalancesMap
    /\ UNCHANGED engineVars

\* onCancel={() => { setIsFormOpen(false); setEditingTransaction(null); }}
onCancel ==
    /\ isFormOpen
    /\ isFormOpen' = FALSE
    /\ editingTransaction' = Undefined
    /\ formData' = DefaultFormData
    /\ rejected' = FALSE
    /\ UNCHANGED <<clock, selectedYear, selectedMonth, transactionsMap,
                   actualEntriesMap, todayActualInput, planLog, history>>
    /\ UNCHANGED initialBalancesMap
    /\ UNCHANGED engineVars

\* handleDelete(t.id, e) on a rule of the selected month; confirm() answers
\* ok or not.
handleDelete ==
    /\ ~isFormOpen
    /\ opCount < MaxOps
    /\ \E i \in 1 .. Len(Lookup(transactionsMap, monthKey)), ok \in BOOLEAN :
          LET id == Lookup(transactionsMap, monthKey)[i].id
          IN  IF ok
              THEN /\ transactionsMap'
                         = propagateChanges(transactionsMap, "delete",
                                            [id |-> id])
                   /\ previousMap' = transactionsMap
                   /\ lastOp' = Some([action |-> "delete", tx |-> [id |-> id],
                                      key |-> monthKey])
                   /\ opCount' = opCount + 1
              ELSE UNCHANGED <<transactionsMap, planLog>>
    /\ UNCHANGED <<clock, selectedYear, selectedMonth, actualEntriesMap,
                   todayActualInput, isFormOpen, editingTransaction, formData,
                   rejected, history>>
    /\ UNCHANGED initialBalancesMap
    /\ UNCHANGED engineVars

NextPlan ==
    \/ SelectMonth
    \/ SelectYear
    \/ OpenAdd
    \/ OpenEdit
    \/ TypeName
    \/ TypeAmount
    \/ handleSubmit
    \/ onCancel
    \/ handleDelete

\* The application opened on 1 February 2024.
InitPlan == EngineIdle /\ AppStartAt(3)

SpecPlan == InitPlan /\ [][NextPlan]_vars

(***************************************************************************)
(* The state machine: the inputs are chosen, the engine runs, and its      *)
(* points are aggregated to weeks (the application calls the two in this   *)
(* order, src/unnamed/part_000 lines 128-129).                             *)
(***************************************************************************)
Init ==
    /\ initialBalance \in Balances
    /\ year \in Years
    /\ month \in Months
    /\ transactions \in RuleLists
    /\ actualEntries \in EntryLists
    /\ points = << >>
    /\ weeklyPoints = << >>
    /\ pc = "ready"
    /\ legacyPoints = << >>
    /\ legacyPc = "ready"
    /\ second = << >>
    /\ breakdown = << >>
    /\ AppStart

Simulate ==
    /\ pc = "ready"
    /\ points' = calculateDailySimulation(initialBalance, year, month,
                                          transactions, actualEntries)
    /\ pc' = "done"
    /\ UNCHANGED <<initialBalance, year, month, transactions, actualEntries,
                   weeklyPoints, legacyPoints, legacyPc, second,
                   breakdown>>
    /\ UNCHANGED appVars

Aggregate ==
    /\ pc = "done"
    /\ weeklyPoints' = aggregateToWeekly(points)
    /\ pc' = "aggregated"
    /\ UNCHANGED <<initialBalance, year, month, transactions, actualEntries,
                   points, legacyPoints, legacyPc, second,
                   breakdown>>
    /\ UNCHANGED appVars

Next == Simulate \/ Aggregate

Spec == Init /\ [][Next]_vars

(***************************************************************************)
(* The engine without rules: the initial balance is any number the balance *)
(* field can hold (parseFloat(e.target.value) || 0, src/unnamed/part_000   *)
(* line 263): zero, negative, and not a whole number of cents.             *)
(***************************************************************************)
AnyBalances ==
    {0, Money(250000), -Money(5000), Money(100012) + 21, -(Money(5000) + 56)}

InitNoRules ==
    /\ initialBalance \in AnyBalances
    /\ year \in Years
    /\ month \in Months
    /\ transactions = << >>
    /\ actualEntries \in EntryLists
    /\ points = << >>
    /\ weeklyPoints = << >>
    /\ pc = "ready"
    /\ legacyPoints = << >>
    /\ legacyPc = "ready"
    /\ second = << >>
    /\ breakdown = << >>
    /\ AppStart

SpecNoRules == InitNoRules /\ [][Next]_vars

(***************************************************************************)
(* The two engines side by side on the same arguments, the engine with     *)
(* reality support called without its fifth argument (actualEntries = []). *)
(***************************************************************************)
InitBoth ==
    /\ initialBalance \in AnyBalances
    /\ year \in Years
    /\ month \in Months
    /\ transactions \in RuleLists
    /\ actualEntries = << >>
    /\ points = << >>
    /\ weeklyPoints = << >>
    /\ pc = "ready"
    /\ legacyPoints = << >>
    /\ legacyPc = "ready"
    /\ second = << >>
    /\ breakdown = << >>
    /\ AppStart

SimulateLegacy ==
    /\ legacyPc = "ready"
    /\ legacyPoints' = LegacyCalculateDailySimulation(initialBalance, year,
                                                      month, transactions)
    /\ legacyPc' = "done"
    /\ UNCHANGED <<initialBalance, year, month, transactions, actualEntries,
                   points, weeklyPoints, pc, second,
                   breakdown>>
    /\ UNCHANGED appVars

NextBoth == Simulate \/ SimulateLegacy

SpecBoth == InitBoth /\ [][NextBoth]_vars

(***************************************************************************)
(* Reference definitions the properties are stated with.  None of them is  *)
(* used by the engine above.                                               *)
(***************************************************************************)
Done == pc = "done"

NumDays == Len(points)

IsLeapYear(y) == (y % 4 = 0 /\ y % 100 # 0) \/ y % 400 = 0

\* The length of month m (0 = January) of year y in the Gregorian calendar.
CalendarDays(y, m) ==
    IF m = 1 THEN (IF IsLeapYear(y) THEN 29 ELSE 28)
    ELSE IF m \in {3, 5, 8, 10} THEN 30
    ELSE 31

\* The weekday (0 = Sunday) of day d of month m (0 = January) of year y,
\* by the table method.
CalendarWeekday(y, m, d) ==
    LET table == <<0, 3, 2, 5, 0, 3, 5, 1, 4, 6, 2, 4>>
        yy == IF m < 2 THEN y - 1 ELSE y
    IN  (yy + (yy \div 4) - (yy \div 100) + (yy \div 400) + table[m + 1] + d) % 7

EntryDays == { actualEntries[i].day : i \in 1 .. Len(actualEntries) }

HasEntry(d) == d \in EntryDays

\* The largest entry day (of a non-empty entry list).
AnchorDay == CHOOSE x \in EntryDays : \A z \in EntryDays : z <= x

\* The first and the last entry of day d, in list order.
FirstEntryOn(d) ==
    actualEntries[CHOOSE i \in 1 .. Len(actualEntries) :
        /\ actualEntries[i].day = d
        /\ \A j \in 1 .. i - 1 : actualEntries[j].day # d]

LastEntryOn(d) ==
    actualEntries[CHOOSE i \in 1 .. Len(actualEntries) :
        /\ actualEntries[i].day = d
        /\ \A j \in i + 1 .. Len(actualEntries) : actualEntries[j].day # d]

\* The sequence xs as an explicit list, so that its elements are computed
\* once and not at each use.
Listed(xs) == xs \o << >>

\* The running sums of a sequence of numbers: RunningSums(xs)[d] is
\* xs[1] + ... + xs[d].
RunningSums(xs) ==
    LET ys == Listed(xs)
        F[d \in 0 .. Len(ys)] == IF d = 0 THEN 0 ELSE F[d - 1] + ys[d]
    IN  Listed([d \in 1 .. Len(ys) |-> F[d]])

Abs(x) == IF x < 0 THEN -x ELSE x

\* The list without its i-th element.
Without(xs, i) == [j \in 1 .. Len(xs) - 1 |-> IF j < i THEN xs[j] ELSE xs[j + 1]]

(***************************************************************************)
(* C1                                                                      *)
(***************************************************************************)
\* C1: the engine returns exactly one point per day of the Gregorian month
\* (year, month), in day order, for every rule list and entry list.
C1_Length ==
    Done => /\ NumDays = CalendarDays(year, month)
            /\ \A d \in 1 .. NumDays : points[d].dayNumber = d

\* February of the leap year 2024 has been simulated: 29 points.
C1_Witness == Done /\ year = 2024 /\ month = 1 /\ NumDays = 29

(***************************************************************************)
(* C2                                                                      *)
(***************************************************************************)
\* C2: a day's point has an actualBalance if and only if some entry has that
\* day, or the entry list is non-empty and the day is after the largest
\* entry day.
C2_Presence ==
    Done =>
        \A d \in 1 .. NumDays :
            (points[d].actualBalance # Undefined)
                <=> (HasEntry(d) \/ (actualEntries # << >> /\ d > AnchorDay))

\* An unobserved day between an earlier entry and the latest one has no
\* actualBalance.
C2_Witness ==
    /\ Done
    /\ \E d \in 1 .. NumDays :
          /\ points[d].actualBalance = Undefined
          /\ \E i \in 1 .. Len(actualEntries) : actualEntries[i].day < d
          /\ \E i \in 1 .. Len(actualEntries) : actualEntries[i].day > d

(***************************************************************************)
(* C3                                                                      *)
(***************************************************************************)
\* C3 as stated: on every day that has an observed entry, the stored
\* actualBalance equals the value of an entry of that day exactly.
C3_ExactValue ==
    Done =>
        \A d \in 1 .. NumDays :
            HasEntry(d) =>
                \E i \in 1 .. Len(actualEntries) :
                    /\ actualEntries[i].day = d
                    /\ points[d].actualBalance = Some(actualEntries[i].value)

\* C3 as amended: on every day that has an observed entry, the stored
\* actualBalance is the value of the first entry of that day in list order,
\* rounded to 2 decimal places, whatever the rules and the initial balance.
C3_RoundedValue ==
    Done =>
        \A d \in 1 .. NumDays :
            HasEntry(d) =>
                points[d].actualBalance = Some(Round2(FirstEntryOn(d).value))

\* An entry of 800.123 is stored as 800.12, with rules present.
C3_Witness ==
    /\ Done
    /\ transactions # << >>
    /\ \E d \in 1 .. NumDays :
          /\ HasEntry(d)
          /\ FirstEntryOn(d).value = Money(80012) + 21
          /\ points[d].actualBalance = Some(Money(80012))

(***************************************************************************)
(* C4                                                                      *)
(***************************************************************************)
\* C4: for every non-empty entry list, the actualBalance stored on the
\* anchor day is the (rounded) value of the entry the engine uses as latest.
C4_AnchorIsLatest ==
    (Done /\ actualEntries # << >>) =>
        LET latest == latestActual(actualEntries)[1]
        IN  latest.day \in 1 .. NumDays =>
                points[latest.day].actualBalance = Some(Round2(latest.value))

(***************************************************************************)
(* C5                                                                      *)
(***************************************************************************)
\* The unrounded net delta of day d by the planned trajectory's rule loop.
PlannedNet(d) ==
    PlannedForEach([dailyDelta |-> 0, cumulativeIncome |-> 0,
                    cumulativeExpenses |-> 0],
                   transactions, smoothRates(transactions), 1, d,
                   GetDay(NewDate(year, month, d))).dailyDelta

\* The sums of the planned net deltas of days 1 .. d, for every day d.
PlannedNetTo ==
    RunningSums([d \in 1 .. NumDays |-> PlannedNet(d)])

\* The value the projection starts from: the last entry of the largest day.
AnchorValue == LastEntryOn(AnchorDay).value

\* total[d] - total[a]: the sum over the days a + 1 .. d of the sequence
\* whose running sums are total.
Between(total, a, d) == total[d] - (IF a >= 1 THEN total[a] ELSE 0)

\* C5 as stated: on every day after the anchor day the stored actualBalance
\* equals the anchor value plus the sum of the planned-style net deltas of
\* the days after the anchor day up to that day.
C5_ExactProjection ==
    (Done /\ actualEntries # << >>) =>
        LET total == PlannedNetTo
            a == AnchorDay
            v == AnchorValue
        IN  \A d \in 1 .. NumDays :
                d > a => points[d].actualBalance = Some(v + Between(total, a, d))

\* C5 as amended: the stored actualBalance is that sum rounded to 2 decimal
\* places.
C5_RoundedProjection ==
    (Done /\ actualEntries # << >>) =>
        LET total == PlannedNetTo
            a == AnchorDay
            v == AnchorValue
        IN  \A d \in 1 .. NumDays :
                d > a =>
                    points[d].actualBalance
                        = Some(Round2(v + Between(total, a, d)))

\* A projected day whose unrounded value is not a whole number of cents,
\* after an anchor value that is one.
C5_Witness ==
    /\ Done
    /\ actualEntries # << >>
    /\ AnchorValue = Round2(AnchorValue)
    /\ LET total == PlannedNetTo
           a == AnchorDay
           v == AnchorValue
       IN  \E d \in 1 .. NumDays :
              /\ d > a
              /\ points[d].actualBalance # Some(v + Between(total, a, d))
              /\ points[d].actualBalance = Some(Round2(v + Between(total, a, d)))

IsOnce(t) == t.frequency = "ONCE"

IsSmooth(t) == t.frequency = "WEEKLY" /\ t.weeklyBehavior = "SMOOTH"

IsLumpSum(t) == t.frequency = "WEEKLY" /\ t.weeklyBehavior # "SMOOTH"

\* +1 for Income, -1 for Expense and Saving.
Sign(t) == IF t.type = "INCOME" THEN 1 ELSE -1

C8_LumpSumRule ==
    (/\ Done
     /\ Len(transactions) = 1
     /\ IsLumpSum(transactions[1])
     /\ transactions[1].dayOfWeek # Undefined) =>
        LET t == transactions[1]
            w == t.dayOfWeek[1]
            total == t.amount * countWeekdayOccurrences(year, month, w)
        IN  /\ \A d \in 1 .. NumDays :
                  points[d].dailyDelta
                      = (IF CalendarWeekday(year, month, d) = w
                         THEN Sign(t) * t.amount ELSE 0)
            /\ points[NumDays].cumulativeIncome
                  = (IF t.type = "INCOME" THEN total ELSE 0)
            /\ points[NumDays].cumulativeExpenses
                  = (IF t.type = "INCOME" THEN 0 ELSE total)
            /\ points[NumDays].balance = initialBalance + Sign(t) * total

\* 50.00 of income every Monday of a month with 4 Mondays: 200.00.
C8_Witness ==
    /\ Done
    /\ transactions = << RulePool[6] >>
    /\ countWeekdayOccurrences(year, month, 1) = 4
    /\ points[NumDays].cumulativeIncome = Money(20000)

(***************************************************************************)
(* C9                                                                      *)
(***************************************************************************)
\* C9: a single Weekly/Smooth rule accrues amount / 7 on every day of the
\* month: the stored dailyDelta is the signed rate and the stored totals of
\* day d are d times the rate, each rounded to 2 decimal places; the points
\* do not depend on the rule's dayOfWeek and dayOfMonth.  For an Expense of
\* 70.00 the dailyDelta is -10.00 and cumulativeExpenses is 10.00 * d.
C9_SmoothRule ==
    (Done /\ Len(transactions) = 1 /\ IsSmooth(transactions[1])) =>
        LET t == transactions[1]
            rate == t.amount \div 7
        IN  /\ t.amount = 7 * rate
            /\ \A d \in 1 .. NumDays :
                  /\ points[d].dailyDelta = Round2(Sign(t) * rate)
                  /\ points[d].balance
                        = Round2(initialBalance + Sign(t) * d * rate)
                  /\ points[d].cumulativeIncome
                        = (IF t.type = "INCOME" THEN Round2(d * rate) ELSE 0)
                  /\ points[d].cumulativeExpenses
                        = (IF t.type = "INCOME" THEN 0 ELSE Round2(d * rate))
                  /\ (t.amount = Money(7000) /\ t.type = "EXPENSE") =>
                        /\ points[d].dailyDelta = -Money(1000)
                        /\ points[d].cumulativeExpenses = d * Money(1000)
            /\ points = calculateDailySimulation(
                            initialBalance, year, month,
                            << [t EXCEPT !.dayOfWeek = Some(5),
                                         !.dayOfMonth = 31] >>,
                            actualEntries)

\* A Smooth Expense of 70.00 in a 30-day month: 300.00 at the end.
C9_Witness ==
    /\ Done
    /\ transactions = << RulePool[4] >>
    /\ NumDays = 30
    /\ points[30].dailyDelta = -Money(1000)
    /\ points[30].cumulativeExpenses = Money(30000)

(***************************************************************************)
(* C10                                                                     *)
(***************************************************************************)
\* The unsigned amount rule t contributes on day d.
Magnitude(t, d) ==
    IF IsOnce(t) THEN (IF t.dayOfMonth = d THEN t.amount ELSE 0)
    ELSE IF IsSmooth(t) THEN t.amount \div 7
    ELSE IF IsLumpSum(t) THEN
        (IF CalendarWeekday(year, month, d)
              = (IF t.dayOfWeek = Undefined THEN 1 ELSE t.dayOfWeek[1])
         THEN t.amount ELSE 0)
    ELSE 0

\* The sum over the rules of the given types of what they contribute on d.
DayTotal(types, d) ==
    LET F[i \in 0 .. Len(transactions)] ==
            IF i = 0 THEN 0
            ELSE F[i - 1] + (IF transactions[i].type \in types
                             THEN Magnitude(transactions[i], d) ELSE 0)
    IN  F[Len(transactions)]

\* C10: every firing rule adds its amount (or rate) to dailyDelta when it
\* is an Income and subtracts it when it is an Expense or a Saving; the
\* unsigned amount goes to cumulativeIncome for an Income and to
\* cumulativeExpenses for an Expense and for a Saving; the reality
\* projection adds the same signed amounts to the anchor value.  (Stored
\* values are rounded to 2 decimal places.)
C10_Signs ==
    Done =>
        LET inc == Listed([d \in 1 .. NumDays |-> DayTotal({"INCOME"}, d)])
            out == Listed([d \in 1 .. NumDays |->
                              DayTotal({"EXPENSE", "SAVING"}, d)])
            incTo == RunningSums(inc)
            outTo == RunningSums(out)
        IN  /\ \A d \in 1 .. NumDays :
                  /\ points[d].dailyDelta = Round2(inc[d] - out[d])
                  /\ points[d].cumulativeIncome = Round2(incTo[d])
                  /\ points[d].cumulativeExpenses = Round2(outTo[d])
                  /\ points[d].balance
                        = Round2(initialBalance + incTo[d] - outTo[d])
            /\ actualEntries # << >> =>
                  LET a == AnchorDay
                      v == AnchorValue
                  IN  \A d \in 1 .. NumDays :
                        d > a =>
                            points[d].actualBalance
                                = Some(Round2(v + Between(incTo, a, d)
                                                - Between(outTo, a, d)))

\* A Saving and an Income have both fired, and a day is projected from an
\* anchor: the Saving is on the expense side and lowers both trajectories.
C10_Witness ==
    /\ Done
    /\ transactions = << RulePool[6], RulePool[7] >>
    /\ actualEntries # << >>
    /\ points[NumDays].cumulativeIncome
          = Money(5000) * countWeekdayOccurrences(year, month, 1)
    /\ points[NumDays].cumulativeExpenses
          = Money(2000) * countWeekdayOccurrences(year, month, 0)
    /\ \E d \in 2 .. NumDays :
          /\ d - 1 > AnchorDay
          /\ points[d].dailyDelta = -Money(2000)
          /\ points[d].actualBalance[1]
                = points[d - 1].actualBalance[1] - Money(2000)

(***************************************************************************)
(* C11                                                                     *)
(***************************************************************************)
\* C11 as stated: with an empty rule list every point has balance equal to
\* initialBalance, dailyDelta 0 and both cumulative totals 0.
C11_FlatExact ==
    (Done /\ transactions = << >>) =>
        \A d \in 1 .. NumDays :
            /\ points[d].balance = initialBalance
            /\ points[d].dailyDelta = 0
            /\ points[d].cumulativeIncome = 0
            /\ points[d].cumulativeExpenses = 0

\* C11 as amended: with an empty rule list every point has balance equal to
\* initialBalance rounded to 2 decimal places, dailyDelta 0 and both
\* cumulative totals 0, for every month and every entry list.
C11_FlatRounded ==
    (Done /\ transactions = << >>) =>
        \A d \in 1 .. NumDays :
            /\ points[d].balance = Round2(initialBalance)
            /\ points[d].dailyDelta = 0
            /\ points[d].cumulativeIncome = 0
            /\ points[d].cumulativeExpenses = 0

\* An initial balance of 1000.123 without rules: every point stores 1000.12.
C11_Witness ==
    /\ Done
    /\ transactions = << >>
    /\ initialBalance = Money(100012) + 21
    /\ \A d \in 1 .. NumDays : points[d].balance = Money(100012)

(***************************************************************************)
(* aggregateToWeekly as a function of any daily sequence: the sequences    *)
(* have every length from 0 to MaxDays, their deltas repeat a pattern of   *)
(* gains, losses and zeros, the balance is the running sum of the deltas   *)
(* and every third day has an actualBalance.                               *)
(***************************************************************************)
MaxDays == 31

\* Daily deltas, in cents, repeated over the days.
DeltaPatterns == { <<1>>, <<-3, 5>>, <<0, 2, -7>>, <<4, -4, 0, 900, -1>> }

DailySequence(n, pat) ==
    LET delta == Listed([d \in 1 .. n |-> Money(pat[((d - 1) % Len(pat)) + 1])])
        gains == RunningSums([d \in 1 .. n |->
                                IF delta[d] > 0 THEN delta[d] ELSE 0])
        losses == RunningSums([d \in 1 .. n |->
                                 IF delta[d] < 0 THEN -delta[d] ELSE 0])
    IN  [d \in 1 .. n |->
            [date |-> ToString(d),
             dayNumber |-> d,
             balance |-> Money(100000) + gains[d] - losses[d],
             actualBalance |-> IF d % 3 = 0
                               THEN Some(Money(90000) + gains[d] - losses[d])
                               ELSE Undefined,
             dailyDelta |-> delta[d],
             cumulativeIncome |-> gains[d],
             cumulativeExpenses |-> losses[d]]]

DailySequences ==
    { DailySequence(n, pat) : n \in 0 .. MaxDays, pat \in DeltaPatterns }

InitWeekly ==
    /\ initialBalance = Money(100000)
    /\ year \in Years
    /\ month = 0
    /\ transactions = << >>
    /\ actualEntries = << >>
    /\ points \in DailySequences
    /\ weeklyPoints = << >>
    /\ pc = "done"
    /\ legacyPoints = << >>
    /\ legacyPc = "ready"
    /\ second = << >>
    /\ breakdown = << >>
    /\ AppStart

NextWeekly == Aggregate

SpecWeekly == InitWeekly /\ [][NextWeekly]_vars

Aggregated == pc = "aggregated"

NumWeeks == Len(weeklyPoints)

\* The 1-based daily indices the i-th week covers: 7(i-1)+1 .. min(7i, n).
FirstDayOf(i) == 7 * (i - 1) + 1

LastDayOf(i) == IF 7 * i < NumDays THEN 7 * i ELSE NumDays

\* The sum of f[d] over the days of week i.
WeekSum(f, i) ==
    LET F[d \in FirstDayOf(i) - 1 .. LastDayOf(i)] ==
            IF d = FirstDayOf(i) - 1 THEN 0 ELSE F[d - 1] + f[d]
    IN  F[LastDayOf(i)]

(***************************************************************************)
(* C12                                                                     *)
(***************************************************************************)
\* C12: for a daily sequence of length n, aggregateToWeekly returns
\* ceil(n / 7) weekly points (none for n = 0); the i-th one is labelled
\* "Week i" and covers exactly the daily points 7(i-1)+1 .. min(7i, n)
\* (1-based): it ends on the last of them and its income and expenses are
\* the gains and losses of exactly these days, so a shorter final chunk is
\* neither dropped nor padded.
C12_Chunks ==
    Aggregated =>
        LET gain == Listed([d \in 1 .. NumDays |->
                              IF points[d].dailyDelta > 0
                              THEN points[d].dailyDelta ELSE 0])
            loss == Listed([d \in 1 .. NumDays |->
                              IF points[d].dailyDelta < 0
                              THEN -points[d].dailyDelta ELSE 0])
        IN  /\ 7 * NumWeeks >= NumDays
            /\ 7 * (NumWeeks - 1) < NumDays
            /\ (NumDays = 0) => (NumWeeks = 0)
            /\ \A i \in 1 .. NumWeeks :
                  /\ weeklyPoints[i].weekLabel = "Week " \o ToString(i)
                  /\ FirstDayOf(i) <= LastDayOf(i)
                  /\ weeklyPoints[i].balance = points[LastDayOf(i)].balance
                  /\ weeklyPoints[i].income = WeekSum(gain, i)
                  /\ weeklyPoints[i].expenses = WeekSum(loss, i)

\* A sequence of 31 days of one cent each has been aggregated: five weeks,
\* four of seven days and the last one of three days.
C12_Witness ==
    /\ Aggregated
    /\ NumDays = 31
    /\ NumWeeks = 5
    /\ weeklyPoints[4].income = Money(7)
    /\ weeklyPoints[5].income = Money(3)
    /\ weeklyPoints[5].weekLabel = "Week 5"

(***************************************************************************)
(* C13                                                                     *)
(***************************************************************************)
\* C13: every weekly point's balance and actualBalance are those of the
\* last daily point of its chunk; the last weekly point's balance is the
\* balance of the last day of the month; a weekly actualBalance is absent
\* whenever the chunk's last day has none.
C13_Snapshot ==
    Aggregated =>
        /\ \A i \in 1 .. NumWeeks :
              /\ weeklyPoints[i].balance = points[LastDayOf(i)].balance
              /\ weeklyPoints[i].actualBalance
                    = points[LastDayOf(i)].actualBalance
              /\ (points[LastDayOf(i)].actualBalance = Undefined)
                    => (weeklyPoints[i].actualBalance = Undefined)
        /\ NumWeeks > 0
        /\ weeklyPoints[NumWeeks].balance = points[NumDays].balance

\* A week whose last day has no actualBalance while an earlier day of the
\* week has one, with rules that move the balance within the week: the
\* weekly actualBalance is absent.
C13_Witness ==
    /\ Aggregated
    /\ \E i \in 1 .. NumWeeks :
          /\ weeklyPoints[i].actualBalance = Undefined
          /\ \E d \in FirstDayOf(i) .. LastDayOf(i) - 1 :
                points[d].actualBalance # Undefined
          /\ points[FirstDayOf(i)].balance # weeklyPoints[i].balance

(***************************************************************************)
(* C14                                                                     *)
(***************************************************************************)
\* C14: every weekly point's income is the sum of the stored dailyDelta of
\* the chunk's days with dailyDelta > 0 and its expenses the sum of
\* |dailyDelta| of the days with dailyDelta < 0, so income - expenses is the
\* sum of the chunk's stored dailyDelta; a day's rules count with the day's
\* net delta only (income rules minus expense and saving rules, rounded to
\* 2 decimal places), not each on its own side.
C14_IncomeExpenses ==
    Aggregated =>
        LET delta == Listed([d \in 1 .. NumDays |-> points[d].dailyDelta])
            gain == Listed([d \in 1 .. NumDays |->
                              IF delta[d] > 0 THEN delta[d] ELSE 0])
            loss == Listed([d \in 1 .. NumDays |->
                              IF delta[d] < 0 THEN Abs(delta[d]) ELSE 0])
            net == Listed([d \in 1 .. NumDays |->
                              Round2(DayTotal({"INCOME"}, d)
                                     - DayTotal({"EXPENSE", "SAVING"}, d))])
            netGain == Listed([d \in 1 .. NumDays |->
                              IF net[d] > 0 THEN net[d] ELSE 0])
            netLoss == Listed([d \in 1 .. NumDays |->
                              IF net[d] < 0 THEN -net[d] ELSE 0])
        IN  \A i \in 1 .. NumWeeks :
              /\ weeklyPoints[i].income = WeekSum(gain, i)
              /\ weeklyPoints[i].expenses = WeekSum(loss, i)
              /\ weeklyPoints[i].income - weeklyPoints[i].expenses
                    = WeekSum(delta, i)
              /\ weeklyPoints[i].income = WeekSum(netGain, i)
              /\ weeklyPoints[i].expenses = WeekSum(netLoss, i)

\* A Smooth Expense of 70.00 and a Smooth Income of 10.00 fire together on
\* every day, with a net delta of -8.57: the first week has income 0 and
\* expenses 59.99, not 10.00 and 70.00.
C14_Witness ==
    /\ Aggregated
    /\ transactions = << RulePool[4], RulePool[5] >>
    /\ points[1].dailyDelta = -Money(857)
    /\ weeklyPoints[1].income = 0
    /\ weeklyPoints[1].expenses = Money(5999)

(***************************************************************************)
(* C15                                                                     *)
(***************************************************************************)
\* C15: for every rule list (all amounts whole cents, Weekly/Smooth rules
\* among them) and every day d, the stored balance(d) differs from
\* initialBalance plus the exact sum of the unrounded daily deltas of the
\* days 1 .. d by at most one cent times d; the rounding errors of the days
\* do not compound: the difference is at most half a cent on every day.
C15_NoDrift ==
    Done =>
        LET raw == Listed([d \in 1 .. NumDays |->
                              DayTotal({"INCOME"}, d)
                                - DayTotal({"EXPENSE", "SAVING"}, d)])
            rawTo == RunningSums(raw)
        IN  \A d \in 1 .. NumDays :
              LET drift == Abs(points[d].balance - (initialBalance + rawTo[d]))
              IN  /\ drift <= Cent * d
                  /\ 2 * drift <= Cent

\* A Smooth Income of 10.00 a week (1.428571... a day): on the last day the
\* stored balance is not a whole number of cents away from the exact sum,
\* and it is not the initial balance plus the sum of the stored, rounded
\* daily deltas (1.43 a day).
C15_Witness ==
    /\ Done
    /\ transactions = << RulePool[5] >>
    /\ points[NumDays].balance
          # initialBalance + NumDays * (Money(1000) \div 7)
    /\ points[NumDays].balance
          = Round2(initialBalance + NumDays * (Money(1000) \div 7))
    /\ points[NumDays].balance
          # initialBalance + RunningSums([d \in 1 .. NumDays |->
                                            points[d].dailyDelta])[NumDays]

(***************************************************************************)
(* C16                                                                     *)
(***************************************************************************)
\* C16: with an empty observed-entry list the engine with reality support
\* returns, for every initial balance, year, month and rule list, the same
\* dayNumber, balance, dailyDelta, cumulativeIncome and cumulativeExpenses
\* on every day as the engine without reality support, and no
\* actualBalance on any day.
C16_SameAsLegacy ==
    (Done /\ legacyPc = "done" /\ actualEntries = << >>) =>
        /\ Len(points) = Len(legacyPoints)
        /\ \A d \in 1 .. NumDays :
              /\ points[d].dayNumber = legacyPoints[d].dayNumber
              /\ points[d].balance = legacyPoints[d].balance
              /\ points[d].dailyDelta = legacyPoints[d].dailyDelta
              /\ points[d].cumulativeIncome = legacyPoints[d].cumulativeIncome
              /\ points[d].cumulativeExpenses
                    = legacyPoints[d].cumulativeExpenses
              /\ points[d].actualBalance = Undefined

\* Both engines have run on a LumpSum rule without a weekday next to a
\* Smooth rule of a fractional rate, from an initial balance that is not a
\* whole number of cents, and the rules have moved the balance.
C16_Witness ==
    /\ Done
    /\ legacyPc = "done"
    /\ actualEntries = << >>
    /\ transactions = << RulePool[5], RulePool[8] >>
    /\ initialBalance = Money(100012) + 21
    /\ legacyPoints[NumDays].cumulativeExpenses >= 4 * Money(4000)
    /\ legacyPoints[NumDays].balance # legacyPoints[1].balance
    /\ points[NumDays].balance = legacyPoints[NumDays].balance

(***************************************************************************)
(* C17                                                                     *)
(***************************************************************************)
\* The keys of the months of the current and the next year.
WindowKeys == { <<y, m>> : y \in {currentYear, currentYear + 1}, m \in 0 .. 11 }

\* Month a is month b or before it.
NotAfter(a, b) == a[1] < b[1] \/ (a[1] = b[1] /\ a[2] <= b[2])

\* The rules with id r that month k of the map holds.
RulesOf(map, k, r) ==
    LET list == Lookup(map, k)
    IN  { i \in 1 .. Len(list) : list[i].id = r }

\* C17: after propagateChanges('add' or 'edit', tx) with the selected month
\* (Y, M), Y the current or the next year, every month from (Y, M) through
\* December of the next year holds exactly one rule with the id of tx, and
\* its fields are those of tx, whatever these months held before.
C17_AddEditEverywhere ==
    (lastOp # Undefined /\ lastOp[1].action \in {"add", "edit"}) =>
        LET tx == lastOp[1].tx
        IN  /\ lastOp[1].key \in WindowKeys
            /\ \A k \in WindowKeys :
                  NotAfter(lastOp[1].key, k) =>
                      /\ Cardinality(RulesOf(transactionsMap, k, tx.id)) = 1
                      /\ \A i \in RulesOf(transactionsMap, k, tx.id) :
                            transactionsMap[k][i] = tx

\* A rule has been edited from February 2024 after it had been deleted from
\* December 2024 on: before the edit February held another version of it
\* and December 2024 and December 2025 held none, now all three hold the
\* edited one.
C17_Witness ==
    /\ lastOp # Undefined
    /\ lastOp[1].action = "edit"
    /\ lastOp[1].key = <<2024, 1>>
    /\ LET tx == lastOp[1].tx
       IN  /\ RulesOf(previousMap, <<2024, 1>>, tx.id) # {}
           /\ \A i \in RulesOf(previousMap, <<2024, 1>>, tx.id) :
                 previousMap[<<2024, 1>>][i].amount # tx.amount
           /\ RulesOf(previousMap, <<2024, 11>>, tx.id) = {}
           /\ RulesOf(previousMap, <<2025, 11>>, tx.id) = {}
           /\ \A k \in {<<2024, 1>>, <<2024, 11>>, <<2025, 11>>} :
                 \E i \in 1 .. Len(transactionsMap[k]) :
                    transactionsMap[k][i] = tx

(***************************************************************************)
(* C18                                                                     *)
(***************************************************************************)
\* C18: after a confirmed delete of the rule with id r with the selected
\* month (Y, M), no month from (Y, M) through December of the next year
\* holds a rule with id r, and every month before (Y, M) that held one
\* before the delete still holds it.
C18_DeleteFromHereOn ==
    (lastOp # Undefined /\ lastOp[1].action = "delete") =>
        LET r == lastOp[1].tx.id
        IN  \A k \in WindowKeys :
              IF NotAfter(lastOp[1].key, k)
              THEN RulesOf(transactionsMap, k, r) = {}
              ELSE /\ RulesOf(previousMap, k, r) # {}
                        => RulesOf(transactionsMap, k, r) # {}
                   /\ Lookup(transactionsMap, k) = Lookup(previousMap, k)

\* A rule added in February 2024 has been deleted from December 2024 on:
\* February and November 2024 still hold it, December 2024 and the months
\* of 2025 do not, and held it before.
C18_Witness ==
    /\ lastOp # Undefined
    /\ lastOp[1].action = "delete"
    /\ lastOp[1].key = <<2024, 11>>
    /\ LET r == lastOp[1].tx.id
       IN  /\ RulesOf(transactionsMap, <<2024, 1>>, r) # {}
           /\ RulesOf(transactionsMap, <<2024, 10>>, r) # {}
           /\ RulesOf(previousMap, <<2024, 11>>, r) # {}
           /\ RulesOf(previousMap, <<2025, 11>>, r) # {}
           /\ RulesOf(transactionsMap, <<2024, 11>>, r) = {}
           /\ RulesOf(transactionsMap, <<2025, 0>>, r) = {}
           /\ RulesOf(transactionsMap, <<2025, 11>>, r) = {}

(***************************************************************************)
(* C19                                                                     *)
(***************************************************************************)
\* The value of the most recent accepted update of day d of month k that no
\* later clearing of month k has removed, from the record of operations.
LastWrite(k, d) ==
    LET writes == { i \in 1 .. Len(history) :
                      /\ history[i].op = "update"
                      /\ history[i].key = k
                      /\ history[i].day = d
                      /\ \A j \in i + 1 .. Len(history) :
                            ~(history[j].op = "clear" /\ history[j].key = k) }
    IN  IF writes = {} THEN Undefined
        ELSE Some(history[CHOOSE i \in writes : \A j \in writes : j <= i].value)

\* C19: starting from an empty store, after any sequence of
\* handleUpdateActual and handleClearActuals calls every month's entry list
\* holds at most one entry per day, and a day has an entry exactly when an
\* update of it was accepted since the month was last cleared: the entry
\* carries the value of the most recent such update.
C19_OnePerDayLastWins ==
    /\ DOMAIN actualEntriesMap \subseteq WindowKeys
    /\ \A k \in WindowKeys :
          LET list == Lookup(actualEntriesMap, k)
          IN  /\ \A i, j \in 1 .. Len(list) :
                    list[i].day = list[j].day => i = j
              /\ \A i \in 1 .. Len(list) :
                    LastWrite(k, list[i].day) = Some(list[i].value)
              /\ \A d \in 1 .. 31 :
                    LastWrite(k, d) # Undefined
                        => \E i \in 1 .. Len(list) : list[i].day = d

\* Two updates of the same day with different values have been accepted
\* after an update of an earlier day: the month holds one entry for each of
\* the two days, the later day's with the second value.
C19_Witness ==
    /\ Len(history) = 3
    /\ \A i \in 1 .. 3 : history[i].op = "update" /\ history[i].key = <<2024, 0>>
    /\ history[1].day = 30
    /\ history[2].day = 31 /\ history[3].day = 31
    /\ history[2].value # history[3].value
    /\ Len(actualEntriesMap[<<2024, 0>>]) = 2
    /\ actualEntriesMap[<<2024, 0>>][2] = [day |-> 31, value |-> history[3].value]

(***************************************************************************)
(* C20                                                                     *)
(***************************************************************************)
\* C20: handleSubmit calls onSubmit only when the name is not empty and the
\* amount is greater than 0, and a non-numeric amount is held as 0: starting
\* from an empty store, every stored rule has a name and an amount above 0,
\* so had the rule of the last add or edit, and a submission that was
\* turned down left the form open on a rule without name or with an amount
\* of 0 or less.
C20_OnlyValidRules ==
    /\ AmountOf("abc") = 0
    /\ \A k \in DOMAIN transactionsMap :
          \A i \in 1 .. Len(transactionsMap[k]) :
              /\ transactionsMap[k][i].amount > 0
              /\ transactionsMap[k][i].name # ""
    /\ (lastOp # Undefined /\ lastOp[1].action \in {"add", "edit"}) =>
          /\ lastOp[1].tx.amount > 0
          /\ lastOp[1].tx.name # ""
    /\ rejected =>
          /\ isFormOpen
          /\ formData.name = "" \/ formData.amount <= 0

\* The edit of a stored rule to the amount -5 has been turned down: the form
\* is still open and the rule keeps its amount in the store.
C20_Witness ==
    /\ rejected
    /\ isFormOpen
    /\ editingTransaction # Undefined
    /\ formData.name = "Rent"
    /\ formData.amount = -Money(500)
    /\ \E i \in 1 .. Len(Lookup(transactionsMap, monthKey)) :
          /\ transactionsMap[monthKey][i].id = editingTransaction[1].id
          /\ transactionsMap[monthKey][i].amount > 0

(***************************************************************************)
(* C21                                                                     *)
(***************************************************************************)
\* C21: starting from an empty month map, after any sequence of add, edit
\* and delete operations issued from any selected months (an add with an id
\* no stored rule has, an edit with the id of the edited rule), no month's
\* rule list holds two rules with the same id.
C21_UniqueIds ==
    \A k \in DOMAIN transactionsMap :
        \A i, j \in 1 .. Len(transactionsMap[k]) :
            transactionsMap[k][i].id = transactionsMap[k][j].id => i = j

\* Two rules have been added and one of them has then been edited from a
\* month that held both: the month still holds two rules, with two ids.
C21_Witness ==
    /\ opCount = 3
    /\ lastOp # Undefined
    /\ lastOp[1].action = "edit"
    /\ Len(Lookup(previousMap, lastOp[1].key)) = 2
    /\ Len(Lookup(transactionsMap, lastOp[1].key)) = 2
    /\ transactionsMap[lastOp[1].key][1].id
          # transactionsMap[lastOp[1].key][2].id

(***************************************************************************)
(* The engine called a second time for the same month with the same rules  *)
(* in another order.                                                       *)
(***************************************************************************)
OrderMonths == {0, 1}

OrderEntryLists == { s \in EntryLists : Len(s) <= 1 }

InitOrder ==
    /\ initialBalance \in Balances
    /\ year = 2024
    /\ month \in OrderMonths
    /\ transactions \in RuleLists
    /\ actualEntries \in OrderEntryLists
    /\ points = << >>
    /\ weeklyPoints = << >>
    /\ pc = "ready"
    /\ legacyPoints = << >>
    /\ legacyPc = "ready"
    /\ second = << >>
    /\ breakdown = << >>
    /\ AppStart

\* The rules txs in the order p, a permutation of 1 .. Len(txs).
Reordered(txs, p) == [i \in 1 .. Len(txs) |-> txs[p[i]]]

SimulateReordered ==
    /\ pc = "done"
    /\ second = Undefined
    /\ \E p \in Permutations(1 .. Len(transactions)) :
          LET txs == Reordered(transactions, p)
          IN  second' = Some([initialBalance |-> initialBalance,
                              transactions |-> txs,
                              points |-> calculateDailySimulation(
                                            initialBalance, year, month, txs,
                                            actualEntries)])
    /\ UNCHANGED <<initialBalance, year, month, transactions, actualEntries,
                   points, weeklyPoints, pc, legacyPoints, legacyPc,
                   breakdown>>
    /\ UNCHANGED appVars

NextOrder == Simulate \/ SimulateReordered

SpecOrder == InitOrder /\ [][NextOrder]_vars

\* The states of the engine's day loop: sts[1] before day 1, sts[d + 1] after
\* day d, with the unrounded plannedBalance, cumulativeIncome and
\* cumulativeExpenses.
RECURSIVE LoopStates(_, _, _, _, _, _)
LoopStates(sts, dim, y, m, txs, entries) ==
    IF Len(sts) > dim THEN sts
    ELSE LoopStates(Append(sts, DayStep(sts[Len(sts)], y, m, txs, entries)),
                    dim, y, m, txs, entries)

\* The loop state the engine starts from.
StartState(balance0) ==
    [day |-> 1, points |-> << >>, plannedBalance |-> balance0,
     cumulativeIncome |-> 0, cumulativeExpenses |-> 0]

\* The loop states of the rule t taken alone, from a balance of 0.
Contribution(t) ==
    Listed(LoopStates(<<StartState(0)>>, NumDays, year, month, <<t>>, << >>))

\* f[1] + ... + f[n]
RECURSIVE SumTo(_, _)
SumTo(f, n) == IF n = 0 THEN 0 ELSE f[n] + SumTo(f, n - 1)

(***************************************************************************)
(* C22                                                                     *)
(***************************************************************************)
\* C22: the rules firing on the same day accumulate independently.  With
\* exact arithmetic a call with the rules in any other order returns the
\* same balance, dailyDelta, cumulativeIncome, cumulativeExpenses and
\* actualBalance on every day, and every value of a day is the (rounded) sum
\* of what the rules contribute to it when each is taken alone: the balance
\* is initialBalance plus the rules' balances from 0, dailyDelta and the
\* cumulative totals are the sums of the rules' own, and a projected
\* actualBalance is the anchor value plus the rules' projected deltas.
C22_OrderAndSum ==
    (Done /\ second # Undefined) =>
        LET n == Len(transactions)
            one == Listed([i \in 1 .. n |-> Contribution(transactions[i])])
            latest == latestActual(actualEntries)
        IN  /\ second[1].points = points
            /\ \A d \in 1 .. NumDays :
                  /\ points[d].balance
                        = Round2(initialBalance
                                 + SumTo([i \in 1 .. n |->
                                            one[i][d + 1].plannedBalance], n))
                  /\ points[d].dailyDelta
                        = Round2(SumTo([i \in 1 .. n |->
                                          one[i][d + 1].plannedBalance
                                          - one[i][d].plannedBalance], n))
                  /\ points[d].cumulativeIncome
                        = Round2(SumTo([i \in 1 .. n |->
                                          one[i][d + 1].cumulativeIncome], n))
                  /\ points[d].cumulativeExpenses
                        = Round2(SumTo([i \in 1 .. n |->
                                          one[i][d + 1].cumulativeExpenses], n))
                  /\ points[d].actualBalance
                        = IF matchingActual(actualEntries, d) # Undefined
                          THEN Some(Round2(matchingActual(actualEntries, d)[1].value))
                          ELSE IF latest # Undefined /\ d > latest[1].day
                          THEN Some(Round2(
                                  latest[1].value
                                  + SumTo([i \in 1 .. n |->
                                             projectedDeltaSinceReal(
                                                 latest[1], d, year, month,
                                                 <<transactions[i]>>)], n)))
                          ELSE Undefined

\* A Once expense of 100 on day 15 and a Smooth expense of 70 a week have
\* been simulated in both orders, with an observed entry on day 20: day 15
\* carries both (-110), and the last day has a projected actualBalance.
C22_Witness ==
    /\ Done
    /\ second # Undefined
    /\ transactions = <<RulePool[1], RulePool[4]>>
    /\ second[1].transactions = <<RulePool[4], RulePool[1]>>
    /\ Len(actualEntries) = 1
    /\ actualEntries[1].day = 20
    /\ points[15].dailyDelta = -Money(11000)
    /\ second[1].points[15].dailyDelta = -Money(11000)
    /\ points[NumDays].actualBalance # Undefined

(***************************************************************************)
(* The engine on values that lie exactly half a cent between two cents:    *)
(* balances, amounts and observed values of an odd number of eighths,      *)
(* which the number fields accept (parseFloat) and doubles hold exactly.   *)
(***************************************************************************)
HalfCent == 35

TieBalances == {Money(250000), Money(12) + HalfCent, -(Money(37) + HalfCent)}

\* A Once expense of 0.375 and a Smooth income of 0.875 a week (0.125 a day).
TiePool ==
    << Tx(Money(37) + HalfCent, "EXPENSE", 15, Some(1), "ONCE", "SMOOTH"),
       Tx(Money(87) + HalfCent, "INCOME", 1, Some(1), "WEEKLY", "SMOOTH") >>

TieRuleLists ==
    { << >>, <<TiePool[1]>>, <<TiePool[2]>>, <<TiePool[1], TiePool[2]>> }

TieEntryLists ==
    { << >>, << [day |-> 20, value |-> -(Money(37) + HalfCent)] >> }

InitTies ==
    /\ initialBalance \in TieBalances
    /\ year \in Years
    /\ month \in Months
    /\ transactions \in TieRuleLists
    /\ actualEntries \in TieEntryLists
    /\ points = << >>
    /\ weeklyPoints = << >>
    /\ pc = "ready"
    /\ legacyPoints = << >>
    /\ legacyPc = "ready"
    /\ second = << >>
    /\ breakdown = << >>
    /\ AppStart

SpecTies == InitTies /\ [][Next]_vars

\* x to the nearest cent, a tie away from zero.
HalfAwayFromZero(x) ==
    IF x >= 0 THEN ((2 * x + Cent) \div (2 * Cent)) * Cent
    ELSE -(((2 * (-x) + Cent) \div (2 * Cent)) * Cent)

\* x to the nearest cent, a tie to the even cent (banker's rounding).
HalfToEven(x) ==
    LET below == (x \div Cent) * Cent
        rest == x - below
    IN  IF 2 * rest < Cent THEN below
        ELSE IF 2 * rest > Cent THEN below + Cent
        ELSE IF (below \div Cent) % 2 = 0 THEN below
        ELSE below + Cent

RoundBy(rule, x) ==
    IF rule = "half away from zero" THEN HalfAwayFromZero(x) ELSE HalfToEven(x)

(***************************************************************************)
(* C23                                                                     *)
(***************************************************************************)
\* C23: every stored balance, dailyDelta, cumulativeIncome,
\* cumulativeExpenses and actualBalance is the unrounded value rounded to 2
\* decimal places, with ties (positive or negative) resolved by one rule for
\* all of them, round-half-away-from-zero or banker's rounding.
C23_OneTieRule ==
    Done =>
        LET sts == Listed(LoopStates(<<StartState(initialBalance)>>, NumDays,
                                     year, month, transactions, actualEntries))
        IN  \E rule \in {"half away from zero", "half to even"} :
              \A d \in 1 .. NumDays :
                 LET actual == actualValue(d, year, month, transactions,
                                           actualEntries)
                 IN  /\ points[d].balance
                           = RoundBy(rule, sts[d + 1].plannedBalance)
                     /\ points[d].dailyDelta
                           = RoundBy(rule, sts[d + 1].plannedBalance
                                           - sts[d].plannedBalance)
                     /\ points[d].cumulativeIncome
                           = RoundBy(rule, sts[d + 1].cumulativeIncome)
                     /\ points[d].cumulativeExpenses
                           = RoundBy(rule, sts[d + 1].cumulativeExpenses)
                     /\ points[d].actualBalance
                           = IF actual = Undefined THEN Undefined
                             ELSE Some(RoundBy(rule, actual[1]))

(***************************************************************************)
(* C24                                                                     *)
(***************************************************************************)
\* The rules of the list whose id is not r, in the list's order.
OtherRules(list, r) ==
    LET NotR(item) == item.id # r
    IN  SelectSeq(list, NotR)

\* Month a is before month b.
Before(a, b) == a[1] < b[1] \/ (a[1] = b[1] /\ a[2] < b[2])

MaxStored == 2

\* The decimal digits of n.
RECURSIVE Digits(_)
Digits(n) == IF n < 10 THEN <<n>> ELSE Digits(n \div 10) \o <<n % 10>>

\* `${key[1]}_${key[2]}` as code units: '0' is 48, '_' is 95.
KeyText(key) ==
    LET yd == Digits(key[1])
        md == Digits(key[2])
    IN  [i \in 1 .. Len(yd) |-> 48 + yd[i]] \o <<95>>
        \o [i \in 1 .. Len(md) |-> 48 + md[i]]

\* a < b on strings, compared from position i on.
RECURSIVE StringLessFrom(_, _, _)
StringLessFrom(a, b, i) ==
    IF i > Len(b) THEN FALSE
    ELSE IF i > Len(a) THEN TRUE
    ELSE IF a[i] # b[i] THEN a[i] < b[i]
    ELSE StringLessFrom(a, b, i + 1)

\* k < monthKey on keys
KeyLess(a, b) == StringLessFrom(KeyText(a), KeyText(b), 1)

\* Object.keys(map).sort()
RECURSIVE SortedKeys(_)
SortedKeys(keys) ==
    IF keys = {} THEN << >>
    ELSE LET first == CHOOSE k \in keys :
                         \A j \in keys \ {k} : KeyLess(k, j)
         IN  <<first>> \o SortedKeys(keys \ {first})

\* allKeys.filter(k => k < monthKey).pop()
prevKey(map, key) ==
    LET allKeys == SortedKeys(DOMAIN map)
        Less(k) == KeyLess(k, key)
        below == SelectSeq(allKeys, Less)
    IN  IF Len(below) = 0 THEN Undefined ELSE Some(below[Len(below)])

\* const initialBalance = useMemo(() => { ... })
initialBalanceMemo ==
    IF monthKey \in DOMAIN initialBalancesMap
    THEN initialBalancesMap[monthKey]
    ELSE LET prev == prevKey(transactionsMap, monthKey)
         IN  IF prev # Undefined
             THEN IF prev[1] \in DOMAIN initialBalancesMap
                  THEN initialBalancesMap[prev[1]]
                  ELSE 0
             ELSE 0

InheritMonths == {1, 2, 10, 11}

StoredBalances == {0, Money(10000)}

StoredRule ==
    WithId([DefaultFormData EXCEPT !.name = "Rent", !.amount = Money(4000)],
           "r1")

\* No rule, or one rule added from February 2024 or from December 2024 on.
StoredRuleMaps ==
    { << >>,
      PropagateLoop([y |-> 2024, m |-> 1, nextMap |-> << >>], 2025, "add",
                    StoredRule),
      PropagateLoop([y |-> 2024, m |-> 11, nextMap |-> << >>], 2025, "add",
                    StoredRule) }

StoredBalanceMaps ==
    UNION { [keys -> StoredBalances] :
              keys \in { s \in SUBSET ({2024, 2025} \X InheritMonths) :
                           Cardinality(s) <= MaxStored } }

InitInherit ==
    /\ initialBalance = 0
    /\ year = ClockPath[3].year
    /\ month = ClockPath[3].month
    /\ transactions = << >>
    /\ actualEntries = << >>
    /\ points = << >>
    /\ weeklyPoints = << >>
    /\ pc = "app"
    /\ legacyPoints = << >>
    /\ legacyPc = "ready"
    /\ second = << >>
    /\ breakdown = << >>
    /\ clock = 3
    /\ selectedYear \in {2024, 2025}
    /\ selectedMonth \in InheritMonths
    /\ transactionsMap \in StoredRuleMaps
    /\ initialBalancesMap \in StoredBalanceMaps
    /\ actualEntriesMap = << >>
    /\ todayActualInput = ""
    /\ isFormOpen = FALSE
    /\ editingTransaction = Undefined
    /\ formData = DefaultFormData
    /\ rejected = FALSE
    /\ previousMap = << >>
    /\ lastOp = Undefined
    /\ opCount = 0
    /\ history = << >>

\* The render: transactions, initialBalance and currentActuals of the
\* selected month, the arguments of calculateDailySimulation (line 128).
RenderArguments ==
    /\ pc = "app"
    /\ initialBalance' = initialBalanceMemo
    /\ year' = selectedYear
    /\ month' = selectedMonth
    /\ transactions' = Lookup(transactionsMap, monthKey)
    /\ actualEntries' = Lookup(actualEntriesMap, monthKey)
    /\ pc' = "ready"
    /\ UNCHANGED <<points, weeklyPoints, legacyPoints, legacyPc, second,
                   breakdown>>
    /\ UNCHANGED appVars

NextInherit == RenderArguments \/ Simulate

SpecInherit == InitInherit /\ [][NextInherit]_vars

(***************************************************************************)
(* C25                                                                     *)
(***************************************************************************)
\* C25: when the selected month has no stored initial balance, the initial
\* balance the simulation is called with is the stored initial balance of
\* the chronologically nearest earlier month that has a rule list, and 0
\* when that month has none stored or no earlier month has a rule list; it
\* is never taken from a month later than the selected one.
C25_NearestEarlier ==
    (pc # "app" /\ monthKey \notin DOMAIN initialBalancesMap) =>
        LET earlier == { k \in DOMAIN transactionsMap : Before(k, monthKey) }
        IN  IF earlier = {} THEN initialBalance = 0
            ELSE LET nearest == CHOOSE k \in earlier :
                                   \A j \in earlier : NotAfter(j, k)
                 IN  initialBalance
                        = IF nearest \in DOMAIN initialBalancesMap
                          THEN initialBalancesMap[nearest]
                          ELSE 0

(***************************************************************************)
(* C26                                                                     *)
(***************************************************************************)
\* The entries of the list whose day is d, and the others, in list order.
EntriesOn(list, d) ==
    LET OnD(e) == e.day = d
    IN  SelectSeq(list, OnD)

EntriesOff(list, d) ==
    LET OffD(e) == e.day # d
    IN  SelectSeq(list, OffD)

\* What a step may do to the observed-entry store: nothing when the selected
\* month is not the month of today; with a typed value that is not a number
\* only the clearing of the selected month; an update touches the selected
\* month's list alone and in it the entry of today's day of month alone,
\* which then carries the typed value.
C26_Step ==
    LET val == ParseFloat(todayActualInput)
        current == selectedYear = today.year /\ selectedMonth = today.month
        old == Lookup(actualEntriesMap, monthKey)
        new == Lookup(actualEntriesMap', monthKey)
    IN  /\ ~current => actualEntriesMap' = actualEntriesMap
        /\ (val = NaN /\ actualEntriesMap' # actualEntriesMap)
              => actualEntriesMap' = Delete(actualEntriesMap, monthKey)
        /\ (actualEntriesMap' # actualEntriesMap
            /\ monthKey \in DOMAIN actualEntriesMap')
              => /\ \A k \in (DOMAIN actualEntriesMap
                              \cup DOMAIN actualEntriesMap') \ {monthKey} :
                       /\ k \in DOMAIN actualEntriesMap
                       /\ k \in DOMAIN actualEntriesMap'
                       /\ actualEntriesMap'[k] = actualEntriesMap[k]
                 /\ EntriesOff(new, today.date) = EntriesOff(old, today.date)
                 /\ EntriesOn(new, today.date)
                       = << [day |-> today.date, value |-> val[1]] >>

\* C26: handleUpdateActual leaves the whole observed-entry store unchanged
\* when the typed value is not a number or the selected month is not the
\* current calendar month; when it accepts, it changes only the selected
\* month's list and only the entry of today's day of month; so every stored
\* entry's day lies in 1 .. daysInMonth of its month.
C26_UpdateFrame ==
    /\ [](\A k \in DOMAIN actualEntriesMap :
            \A i \in 1 .. Len(actualEntriesMap[k]) :
               actualEntriesMap[k][i].day \in 1 .. CalendarDays(k[1], k[2]))
    /\ [][C26_Step]_vars

\* Entries for 30 and 31 January 2024 are stored, the date has become
\* 1 February with January still selected and a number in the field:
\* handleUpdateActual can be called and returns without a change.
C26_Witness ==
    /\ clock = 3
    /\ monthKey = <<2024, 0>>
    /\ ~isCurrentMonth
    /\ ParseFloat(todayActualInput) # NaN
    /\ Len(history) < MaxHistory
    /\ ENABLED handleUpdateActual
    /\ Len(Lookup(actualEntriesMap, monthKey)) = 2
    /\ actualEntriesMap[monthKey][1].day = 30
    /\ actualEntriesMap[monthKey][2].day = 31

(***************************************************************************)
(* The engine called a second time for the same month, rules and observed  *)
(* entries with another initial balance of a whole number of cents.        *)
(***************************************************************************)
WholeBalances == {0, Money(250000), -Money(5000)}

InitTwoBalances ==
    /\ initialBalance \in WholeBalances
    /\ year = 2024
    /\ month \in OrderMonths
    /\ transactions \in RuleLists
    /\ actualEntries \in OrderEntryLists
    /\ points = << >>
    /\ weeklyPoints = << >>
    /\ pc = "ready"
    /\ legacyPoints = << >>
    /\ legacyPc = "ready"
    /\ second = << >>
    /\ breakdown = << >>
    /\ AppStart

SimulateOtherBalance ==
    /\ pc = "done"
    /\ second = Undefined
    /\ \E other \in WholeBalances \ {initialBalance} :
          second' = Some([initialBalance |-> other,
                          transactions |-> transactions,
                          points |-> calculateDailySimulation(
                                        other, year, month, transactions,
                                        actualEntries)])
    /\ UNCHANGED <<initialBalance, year, month, transactions, actualEntries,
                   points, weeklyPoints, pc, legacyPoints, legacyPc,
                   breakdown>>
    /\ UNCHANGED appVars

NextTwoBalances == Simulate \/ SimulateOtherBalance

SpecTwoBalances == InitTwoBalances /\ [][NextTwoBalances]_vars

(***************************************************************************)
(* C27                                                                     *)
(***************************************************************************)
\* C27: for a fixed year, month, rule list and observed-entry list, two
\* calls of calculateDailySimulation that differ only in initialBalance (a
\* whole number of cents in both) return on every day the same
\* actualBalance (absent in both, or the same value), the same dailyDelta,
\* cumulativeIncome and cumulativeExpenses, and balances whose difference is
\* the difference of the initial balances.
C27_BalanceOnlyShifts ==
    (Done /\ second # Undefined) =>
        /\ Len(second[1].points) = NumDays
        /\ \A d \in 1 .. NumDays :
              LET p == points[d]
                  q == second[1].points[d]
              IN  /\ q.actualBalance = p.actualBalance
                  /\ q.dailyDelta = p.dailyDelta
                  /\ q.cumulativeIncome = p.cumulativeIncome
                  /\ q.cumulativeExpenses = p.cumulativeExpenses
                  /\ q.balance - p.balance
                        = second[1].initialBalance - initialBalance

\* A Smooth income of 10 a week (a fractional daily rate) and a LumpSum
\* income have been simulated from 2500 and from -50 with an observed entry:
\* the last day has the same projected actualBalance and the same
\* cumulativeIncome in both, and balances 2550 apart.
C27_Witness ==
    /\ Done
    /\ second # Undefined
    /\ initialBalance = Money(250000)
    /\ second[1].initialBalance = -Money(5000)
    /\ transactions = <<RulePool[5], RulePool[6]>>
    /\ Len(actualEntries) = 1
    /\ points[NumDays].actualBalance # Undefined
    /\ second[1].points[NumDays].actualBalance = points[NumDays].actualBalance
    /\ points[NumDays].cumulativeIncome > 0
    /\ points[NumDays].balance - second[1].points[NumDays].balance
          = Money(255000)
    /\ points[NumDays].balance # points[1].balance

(***************************************************************************)
(* C28                                                                     *)
(***************************************************************************)
\* C28: for every rule list with non-negative amounts and every day d, the
\* unrounded running values of the day loop satisfy
\* plannedBalance(d) = initialBalance + cumulativeIncome(d)
\*                     - cumulativeExpenses(d),
\* and cumulativeIncome and cumulativeExpenses never decrease from one day
\* to the next (they start from 0).
C28_BalanceIdentity ==
    (Done /\ \A i \in 1 .. Len(transactions) : transactions[i].amount >= 0) =>
        LET sts == Listed(LoopStates(<<StartState(initialBalance)>>, NumDays,
                                     year, month, transactions, actualEntries))
        IN  /\ sts[1].cumulativeIncome = 0
            /\ sts[1].cumulativeExpenses = 0
            /\ sts[NumDays + 1].points = points
            /\ \A d \in 1 .. NumDays :
                  /\ sts[d + 1].plannedBalance
                        = initialBalance + sts[d + 1].cumulativeIncome
                          - sts[d + 1].cumulativeExpenses
                  /\ sts[d + 1].cumulativeIncome >= sts[d].cumulativeIncome
                  /\ sts[d + 1].cumulativeExpenses >= sts[d].cumulativeExpenses

\* A Saving on day 31 and a Smooth income of 10 a week have been simulated
\* for a month of 31 days from a balance of 1000.123: the last day has
\* income and expenses, and the stored balance is not the stored income
\* minus the stored expenses above the initial balance (it is rounded).
C28_Witness ==
    /\ Done
    /\ NumDays = 31
    /\ initialBalance = Money(100012) + 21
    /\ transactions = <<RulePool[2], RulePool[5]>>
    /\ points[31].cumulativeExpenses = Money(3000)
    /\ points[30].cumulativeExpenses = 0
    /\ points[31].cumulativeIncome > points[30].cumulativeIncome
    /\ points[31].balance
          # initialBalance + points[31].cumulativeIncome
            - points[31].cumulativeExpenses

(***************************************************************************)
(* The month and year selectors with every month on offer, on 1 February   *)
(* 2024, next to the Real Balance field and the opening and closing of the *)
(* form.                                                                   *)
(***************************************************************************)
\* onChange={e => setSelectedMonth(parseInt(e.target.value))} with the
\* twelve options of availableMonths, those with disabled set left out.
SelectAnyMonth ==
    /\ ~isFormOpen
    /\ \E m \in Months :
          /\ ~(selectedYear = currentYear /\ m < currentMonthIdx)
          /\ selectedMonth' = m
    /\ UNCHANGED <<clock, selectedYear, transactionsMap, actualEntriesMap,
                   todayActualInput, isFormOpen, editingTransaction, formData,
                   rejected, planLog, history>>
    /\ UNCHANGED initialBalancesMap
    /\ UNCHANGED engineVars

NextSelect ==
    \/ SelectAnyMonth
    \/ SelectYear
    \/ TypeActual
    \/ OpenAdd
    \/ onCancel

SpecSelect == InitPlan /\ [][NextSelect]_vars

(***************************************************************************)
(* C29                                                                     *)
(***************************************************************************)
\* C29: starting from the current month, after any sequence of month and
\* year selections among the enabled options (the months before the current
\* month are disabled while the current year is selected; the years are
\* currentYear and currentYear + 1), the selected (year, month) is never
\* earlier than the current calendar month.
C29_NeverPast ==
    ~Before(<<selectedYear, selectedMonth>>, <<today.year, today.month>>)

(***************************************************************************)
(* The single-list application (src/App.tsx): one rule list, simulated by  *)
(* the engine of src/unnamed/part_002 for the selected year and month      *)
(* (line 54), and the category breakdown of the same list (lines 69-96).   *)
(* year, month, initialBalance and transactions are the application's      *)
(* selectedYear, selectedMonth, initialBalance and transactions.           *)
(***************************************************************************)
\* category of the pool's rules, in the pool's order.
CategoryPool ==
    << "Housing", "Other", "Salary", "Food", "Salary", "Salary", "Other",
       "Food" >>

\* A rule with its category (types.ts line 33).
Categorized(t, category) ==
    [amount |-> t.amount, type |-> t.type, dayOfMonth |-> t.dayOfMonth,
     dayOfWeek |-> t.dayOfWeek, frequency |-> t.frequency,
     weeklyBehavior |-> t.weeklyBehavior, category |-> category]

CategorizedRuleLists ==
    { [i \in 1 .. Len(ix) |-> Categorized(RulePool[ix[i]], CategoryPool[ix[i]])] :
        ix \in IncreasingLists(Len(RulePool), MaxRules) }

InitCategories ==
    /\ initialBalance \in Balances
    /\ year \in Years
    /\ month \in Months
    /\ transactions \in CategorizedRuleLists
    /\ actualEntries = << >>
    /\ points = << >>
    /\ weeklyPoints = << >>
    /\ pc = "ready"
    /\ legacyPoints = << >>
    /\ legacyPc = "ready"
    /\ second = << >>
    /\ breakdown = << >>
    /\ AppStart

\* let actualMonthlyAmount = 0; if (t.frequency === ONCE) ... else ...
actualMonthlyAmount(t, dim, y, m) ==
    IF t.frequency = "ONCE" THEN t.amount
    ELSE IF t.weeklyBehavior = "SMOOTH" THEN (t.amount \div 7) * dim
    ELSE t.amount
         * countWeekdayOccurrences(
              y, m, IF t.dayOfWeek = Undefined THEN 0 ELSE t.dayOfWeek[1])

\* t.type === SAVING ? `Saving: ${t.category}` : t.category, as the pair of
\* the prefix and the category.
SplitKey(t) ==
    IF t.type = "SAVING" THEN <<"Saving: ", t.category>>
    ELSE <<"", t.category>>

\* transactions.forEach(t => { ... split[key] = (split[key] || 0) + ... })
RECURSIVE SplitForEach(_, _, _, _, _, _)
SplitForEach(split, txs, idx, dim, y, m) ==
    IF idx > Len(txs) THEN split
    ELSE LET t == txs[idx]
             key == SplitKey(t)
             sofar == IF key \in DOMAIN split THEN split[key] ELSE 0
         IN  SplitForEach(
                IF t.type = "INCOME" THEN split
                ELSE Put(split, key, sofar + actualMonthlyAmount(t, dim, y, m)),
                txs, idx + 1, dim, y, m)

\* Object.values(split).reduce((a, b) => a + b, 0)
RECURSIVE SumValues(_, _)
SumValues(split, keys) ==
    IF keys = {} THEN 0
    ELSE LET key == CHOOSE k \in keys : TRUE
         IN  split[key] + SumValues(split, keys \ {key})

categoryAnalysis(txs, simulationData, y, m) ==
    LET split == SplitForEach(<< >>, txs, 1, Len(simulationData), y, m)
    IN  [data |-> split, totalAllocation |-> SumValues(split, DOMAIN split)]

\* const categoryAnalysis = useMemo(() => { ... }), after simulationData.
AnalyseCategories ==
    /\ legacyPc = "done"
    /\ breakdown = Undefined
    /\ breakdown' = Some(categoryAnalysis(transactions, legacyPoints, year,
                                          month))
    /\ UNCHANGED <<initialBalance, year, month, transactions, actualEntries,
                   points, weeklyPoints, pc, legacyPoints, legacyPc, second>>
    /\ UNCHANGED appVars

NextCategories == SimulateLegacy \/ AnalyseCategories

SpecCategories == InitCategories /\ [][NextCategories]_vars

(***************************************************************************)
(* C30                                                                     *)
(***************************************************************************)
\* C30: in the single-list application, for every rule list the category
\* breakdown's totalAllocation equals the simulation's cumulativeExpenses
\* on the last day of the month up to rounding (within one cent), Once
\* rules whose dayOfMonth exceeds the month length and Weekly rules without
\* dayOfWeek included.
C30_AllocationIsExpenses ==
    (legacyPc = "done" /\ breakdown # Undefined) =>
        Abs(breakdown[1].totalAllocation
            - legacyPoints[Len(legacyPoints)].cumulativeExpenses) <= Cent

====
